---- MODULE Spec2Model ----
(***************************************************************************)
(* Model of the cryptoBacktest simulation core:                            *)
(*   app/patterns.py  candlestick pattern detection                        *)
(*   app/ema.py       causal (no look-ahead) EMA trend filter              *)
(*   app/candles.py   filter_complete_candles                              *)
(*   app/cache.py     CacheManager.load_cache / merge_with_cache           *)
(*   app/types.py     Position.calculate_pnl, BacktestResult               *)
(*   app/strategy.py  Backtester.__init__ / Backtester.backtest            *)
(*   app/report.py    generate_report                                      *)
(*                                                                         *)
(* Python floats are modelled as exact rationals [n, d] with d > 0 in      *)
(* lowest terms (rounding error is outside the model).  Python's Optional  *)
(* values are modelled as sequences of length 0 (None) or 1 (a value);     *)
(* an absent pattern is the string "None".  DataFrames are sequences of    *)
(* row records; the Python position  df.iloc[k]  is  Iloc(df, k).          *)
(***************************************************************************)
EXTENDS Integers, Sequences, FiniteSets, TLC

VARIABLES
    pc,                \* position of the operation under analysis
    self,              \* Backtester attributes set by __init__
    df,                \* trading-timeframe DataFrame (rows = candles)
    df_4h,             \* reference-timeframe DataFrame used for the EMAs
    i,                 \* loop variable of the candle walk (Python index)
    current_position,  \* Optional[Position] local of backtest
    result,            \* BacktestResult under construction
    index,             \* argument of detect_patterns
    pattern_out,       \* value returned by detect_patterns
    df_4h_b,           \* second reference series (no-look-ahead comparison)
    ema_args,          \* [target, short_period, long_period]
    ema_out,           \* get_ema_at_timestamp(df_4h, ...)
    ema_out_b,         \* get_ema_at_timestamp(df_4h_b, ...)
    ema_series,        \* precompute_ema_series(df_4h, ...) per period (Optional)
    cache_file,        \* klines stored in the cache file (Optional)
    new_df,            \* argument new_df of merge_with_cache
    days_back,         \* argument days_back of merge_with_cache (Optional)
    merged,            \* value returned by merge_with_cache (Optional)
    position,          \* Position on which calculate_pnl is called (Optional)
    pnl_args,          \* [exit_price, fee_percent]
    calc_args,         \* [prices, period] of a calculate_ema call
    ema_array,         \* value returned by calculate_ema (Optional)
    run,               \* which of two runs of backtest is executing (1 or 2)
    parked,            \* arguments and locals of the run that is not executing
    alone,             \* the results the two runs returned when run one by one
    results,           \* argument of generate_report: list of Optional[BacktestResult]
    report,            \* value returned by generate_report (Optional)
    init_args          \* arguments of Backtester.__init__ (Optional)

vars == <<pc, self, df, df_4h, i, current_position, result, index, pattern_out,
          df_4h_b, ema_args, ema_out, ema_out_b, ema_series, cache_file, new_df,
          days_back, merged, position, pnl_args, calc_args, ema_array,
          run, parked, alone, results, report, init_args>>

btVars    == <<self, df_4h, i, current_position, result>>
patVars   == <<index, pattern_out>>
emaVars   == <<df_4h_b, ema_args, ema_out, ema_out_b, ema_series>>
mergeVars == <<cache_file, new_df, days_back, merged>>
pnlVars   == <<position, pnl_args>>
calcVars  == <<calc_args, ema_array>>
twoVars   == <<run, parked, alone>>
reportVars == <<results, report>>
argVars   == <<init_args>>
unitVars  == <<pnlVars, calcVars, twoVars, reportVars, argVars>>

-----------------------------------------------------------------------------
(* Bounds of the model *)

\* trading series hold at most MaxLen candles
MaxLen == 4
\* reference close times are 1..MaxRefTime in the backtest
MaxRefTime == 3
\* price levels 1..MaxPrice of the candles given to detect_patterns
MaxPrice == 4
\* reference close times 1..MaxEmaTime when get_ema_at_timestamp is analysed alone
MaxEmaTime == 3
\* EMA periods 1..MaxPeriod when get_ema_at_timestamp is analysed alone
MaxPeriod == 2
\* candle open times 1..MaxTime in the cache merge
MaxTime == 3
\* new_df holds at most MaxNewLen rows in the cache merge
MaxNewLen == 2
\* retention windows of 1..MaxDays time units
MaxDays == 3
\* calculate_ema analysed alone: at most MaxCalcLen prices, periods 1..MaxCalcPeriod
MaxCalcLen == 3
MaxCalcPeriod == 3

-----------------------------------------------------------------------------
(* Optional values and sequences *)

None == <<>>
Some(x) == <<x>>
IsNone(o) == o = <<>>
Get(o) == o[1]

Iloc(frame, k) == frame[k + 1]
Last(s) == s[Len(s)]

Min(a, b) == IF a <= b THEN a ELSE b
Max(a, b) == IF a >= b THEN a ELSE b
Abs(x) == IF x < 0 THEN -x ELSE x

-----------------------------------------------------------------------------
(* Exact rational arithmetic standing in for Python float arithmetic *)

RECURSIVE GCD(_, _)
GCD(a, b) == IF b = 0 THEN a ELSE GCD(b, a % b)

\* n/d in lowest terms.  Numpy floats do not raise on a zero divisor: x/0 is
\* inf (n = 1, d = 0) or -inf (n = -1, d = 0) and 0/0 is nan (n = 0, d = 0).
Rat(n, d) ==
    LET g == GCD(Abs(n), Abs(d))
        s == IF d < 0 THEN -1 ELSE 1
    IN  IF g = 0 THEN [n |-> 0, d |-> 0]
        ELSE [n |-> (s * n) \div g, d |-> (s * d) \div g]

IsNaN(a) == a.n = 0 /\ a.d = 0
IsFinite(a) == a.d # 0

RInt(k) == [n |-> k, d |-> 1]
RAdd(a, b) == Rat(a.n * b.d + b.n * a.d, a.d * b.d)
RSub(a, b) == Rat(a.n * b.d - b.n * a.d, a.d * b.d)
RMul(a, b) == Rat(a.n * b.n, a.d * b.d)
RDiv(a, b) == Rat(a.n * b.d, a.d * b.n)
RLt(a, b) == a.n * b.d < b.n * a.d
RLe(a, b) == ~IsNaN(a) /\ ~IsNaN(b) /\ a.n * b.d <= b.n * a.d
RGt(a, b) == RLt(b, a)
RGe(a, b) == RLe(b, a)

RECURSIVE RSum(_)
RSum(s) == IF s = <<>> THEN RInt(0) ELSE RAdd(s[1], RSum(Tail(s)))

-----------------------------------------------------------------------------
(* app/types.py: PatternType and ExitReason values *)

HAMMER == "Hammer"
SHOOTING_STAR == "Shooting Star"
DOJI == "Doji"
BULLISH_ENGULFING == "Bullish Engulfing"
BEARISH_ENGULFING == "Bearish Engulfing"
MORNING_STAR == "Morning Star"
EVENING_STAR == "Evening Star"
NoPattern == "None"

TAKE_PROFIT == "Take Profit"
STOP_LOSS == "Stop Loss"
EMA_BEARISH == "EMA Bearish Exit"
FORCED_CLOSE == "Forced Close"

-----------------------------------------------------------------------------
(* app/patterns.py.  Prices are integers here, so a float comparison such  *)
(* as  body > 0.3 * total_range  is written  10 * body > 3 * total_range.  *)

Body(candle) == Abs(candle.close - candle.open)
TotalRange(candle) == candle.high - candle.low
UpperShadow(candle) == candle.high - Max(candle.open, candle.close)
LowerShadow(candle) == Min(candle.open, candle.close) - candle.low

detect_hammer(candle) ==
    IF TotalRange(candle) = 0 THEN FALSE
    ELSE IF 10 * Body(candle) > 3 * TotalRange(candle) THEN FALSE
    ELSE IF LowerShadow(candle) < 2 * Body(candle) THEN FALSE
    ELSE IF 10 * UpperShadow(candle) > TotalRange(candle) THEN FALSE
    ELSE TRUE

detect_shooting_star(candle) ==
    IF TotalRange(candle) = 0 THEN FALSE
    ELSE IF 10 * Body(candle) > 3 * TotalRange(candle) THEN FALSE
    ELSE IF UpperShadow(candle) < 2 * Body(candle) THEN FALSE
    ELSE IF 10 * LowerShadow(candle) > TotalRange(candle) THEN FALSE
    ELSE TRUE

detect_doji(candle) ==
    IF TotalRange(candle) = 0 THEN FALSE
    ELSE 10 * Body(candle) <= TotalRange(candle)

detect_bullish_engulfing(prev_candle, curr_candle) ==
    IF prev_candle.close >= prev_candle.open THEN FALSE
    ELSE IF curr_candle.close <= curr_candle.open THEN FALSE
    ELSE IF curr_candle.open >= prev_candle.close THEN FALSE
    ELSE IF curr_candle.close <= prev_candle.open THEN FALSE
    ELSE TRUE

detect_bearish_engulfing(prev_candle, curr_candle) ==
    IF prev_candle.close <= prev_candle.open THEN FALSE
    ELSE IF curr_candle.close >= curr_candle.open THEN FALSE
    ELSE IF curr_candle.open <= prev_candle.close THEN FALSE
    ELSE IF curr_candle.close >= prev_candle.open THEN FALSE
    ELSE TRUE

\* middle_body >= 0.5 * first_body  is  2 * middle_body >= first_body;
\* third.close <= (first.open + first.close) / 2  is doubled likewise
detect_morning_star(first, middle, third) ==
    IF first.close >= first.open THEN FALSE
    ELSE IF third.close <= third.open THEN FALSE
    ELSE IF 2 * Body(middle) >= Body(first) THEN FALSE
    ELSE IF 2 * third.close <= first.open + first.close THEN FALSE
    ELSE TRUE

detect_evening_star(first, middle, third) ==
    IF first.close <= first.open THEN FALSE
    ELSE IF third.close >= third.open THEN FALSE
    ELSE IF 2 * Body(middle) >= Body(first) THEN FALSE
    ELSE IF 2 * third.close >= first.open + first.close THEN FALSE
    ELSE TRUE

\* a detector order that tries Doji before Hammer
detect_patterns_DojiFirst(frame, idx) ==
    IF idx < 0 \/ idx >= Len(frame) THEN NoPattern
    ELSE LET current == Iloc(frame, idx) IN
         IF detect_doji(current) THEN DOJI
         ELSE IF detect_hammer(current) THEN HAMMER
         ELSE IF detect_shooting_star(current) THEN SHOOTING_STAR
         ELSE IF idx >= 1 /\ detect_bullish_engulfing(Iloc(frame, idx - 1), current)
              THEN BULLISH_ENGULFING
         ELSE IF idx >= 1 /\ detect_bearish_engulfing(Iloc(frame, idx - 1), current)
              THEN BEARISH_ENGULFING
         ELSE IF idx >= 2 /\ detect_morning_star(Iloc(frame, idx - 2),
                                                  Iloc(frame, idx - 1), current)
              THEN MORNING_STAR
         ELSE IF idx >= 2 /\ detect_evening_star(Iloc(frame, idx - 2),
                                                  Iloc(frame, idx - 1), current)
              THEN EVENING_STAR
         ELSE NoPattern

detect_patterns(frame, idx) ==
    IF idx < 0 \/ idx >= Len(frame) THEN NoPattern
    ELSE LET current == Iloc(frame, idx) IN
         IF detect_hammer(current) THEN HAMMER
         ELSE IF detect_shooting_star(current) THEN SHOOTING_STAR
         ELSE IF detect_doji(current) THEN DOJI
         ELSE IF idx >= 1 /\ detect_bullish_engulfing(Iloc(frame, idx - 1), current)
              THEN BULLISH_ENGULFING
         ELSE IF idx >= 1 /\ detect_bearish_engulfing(Iloc(frame, idx - 1), current)
              THEN BEARISH_ENGULFING
         ELSE IF idx >= 2 /\ detect_morning_star(Iloc(frame, idx - 2),
                                                  Iloc(frame, idx - 1), current)
              THEN MORNING_STAR
         ELSE IF idx >= 2 /\ detect_evening_star(Iloc(frame, idx - 2),
                                                  Iloc(frame, idx - 1), current)
              THEN EVENING_STAR
         ELSE NoPattern

\* a bullish set that also admits Evening Star
is_bullish_pattern_Wide(pattern) ==
    IF pattern = NoPattern THEN FALSE
    ELSE pattern \in {HAMMER, BULLISH_ENGULFING, MORNING_STAR, EVENING_STAR}

is_bullish_pattern(pattern) ==
    IF pattern = NoPattern THEN FALSE
    ELSE pattern \in {HAMMER, BULLISH_ENGULFING, MORNING_STAR}

-----------------------------------------------------------------------------
(* detect_patterns analysed alone: the frame and the index are drawn in    *)
(* the initial state and one step applies the function.  The candle at     *)
(* the index takes every open/high/low/close combination with low <= high  *)
(* (open and close may lie outside [low, high], as in the candles of       *)
(* tests/test_strategy.py); its predecessors, of which the detectors read  *)
(* only open and close, are body-only candles.                             *)

PatPrices == 1..MaxPrice

BodyCandles ==
    {[open |-> o, high |-> Max(o, c), low |-> Min(o, c), close |-> c] :
        o \in PatPrices, c \in PatPrices}

AnyCandles ==
    {c \in [open : PatPrices, high : PatPrices, low : PatPrices, close : PatPrices] :
        c.low <= c.high}

\* the candles of test_hammer_detection, prices in tenths (the detectors
\* compare multiples of differences, so the unit cancels)
TestValidHammer == [open |-> 1000, high |-> 1005, low |-> 980, close |-> 1002]
TestBodyTooLarge == [open |-> 1000, high |-> 1020, low |-> 980, close |-> 1015]
TestUpperShadowTooLarge == [open |-> 1000, high |-> 1020, low |-> 980, close |-> 1002]
TestHammerCandles == {TestValidHammer, TestBodyTooLarge, TestUpperShadowTooLarge}

PatFrames ==
    {<<>>}
    \cup {<<c>> : c \in AnyCandles \cup TestHammerCandles}
    \cup {<<p, c>> : p \in BodyCandles, c \in AnyCandles}
    \cup {<<f, m, c>> : f \in BodyCandles, m \in BodyCandles, c \in AnyCandles}

IdleBacktest ==
    /\ self = None
    /\ df_4h = <<>>
    /\ i = 0
    /\ current_position = None
    /\ result = None

IdlePattern ==
    /\ index = 0
    /\ pattern_out = NoPattern

IdleEma ==
    /\ df_4h_b = <<>>
    /\ ema_args = None
    /\ ema_out = None
    /\ ema_out_b = None
    /\ ema_series = None

IdleMerge ==
    /\ cache_file = None
    /\ new_df = <<>>
    /\ days_back = None
    /\ merged = None

IdlePnl ==
    /\ position = None
    /\ pnl_args = None

IdleCalc ==
    /\ calc_args = None
    /\ ema_array = None

IdleTwo ==
    /\ run = 0
    /\ parked = None
    /\ alone = <<>>

IdleReport ==
    /\ results = <<>>
    /\ report = None

IdleArgs == init_args = None

IdleUnits == IdlePnl /\ IdleCalc /\ IdleTwo /\ IdleReport /\ IdleArgs

InitPat ==
    /\ pc = "detect_call"
    /\ df \in PatFrames
    /\ index \in {-1, Len(df) - 1, Len(df)}
    /\ pattern_out = NoPattern
    /\ IdleBacktest /\ IdleEma /\ IdleMerge /\ IdleUnits

DetectPatterns ==
    /\ pc = "detect_call"
    /\ pattern_out' = detect_patterns(df, index)
    /\ pc' = "detect_done"
    /\ UNCHANGED <<df, index, btVars, emaVars, mergeVars, unitVars>>

NextPat == DetectPatterns

SpecPat == InitPat /\ [][NextPat]_vars

-----------------------------------------------------------------------------
(* Pattern criteria as listed in section 4.3 of the specification *)

CritHammer(c) ==
    /\ TotalRange(c) # 0
    /\ 10 * Body(c) <= 3 * TotalRange(c)
    /\ LowerShadow(c) >= 2 * Body(c)
    /\ 10 * UpperShadow(c) <= TotalRange(c)

CritShootingStar(c) ==
    /\ TotalRange(c) # 0
    /\ 10 * Body(c) <= 3 * TotalRange(c)
    /\ UpperShadow(c) >= 2 * Body(c)
    /\ 10 * LowerShadow(c) <= TotalRange(c)

CritDoji(c) == TotalRange(c) # 0 /\ 10 * Body(c) <= TotalRange(c)

CritHolds(k, frame, idx) ==
    LET curr == Iloc(frame, idx)
        prev == Iloc(frame, idx - 1)
        first == Iloc(frame, idx - 2)
    IN  CASE k = 1 -> CritHammer(curr)
          [] k = 2 -> CritShootingStar(curr)
          [] k = 3 -> CritDoji(curr)
          [] k = 4 -> /\ idx >= 1
                      /\ prev.close < prev.open /\ curr.close > curr.open
                      /\ curr.open < prev.close /\ curr.close > prev.open
          [] k = 5 -> /\ idx >= 1
                      /\ prev.close > prev.open /\ curr.close < curr.open
                      /\ curr.open > prev.close /\ curr.close < prev.open
          [] k = 6 -> /\ idx >= 2
                      /\ first.close < first.open /\ curr.close > curr.open
                      /\ 2 * Body(prev) < Body(first)
                      /\ 2 * curr.close > first.open + first.close
          [] k = 7 -> /\ idx >= 2
                      /\ first.close > first.open /\ curr.close < curr.open
                      /\ 2 * Body(prev) < Body(first)
                      /\ 2 * curr.close < first.open + first.close

PatternOrder ==
    <<HAMMER, SHOOTING_STAR, DOJI, BULLISH_ENGULFING, BEARISH_ENGULFING,
      MORNING_STAR, EVENING_STAR>>

InRange(frame, idx) == idx >= 0 /\ idx < Len(frame)

\* C9: detect_patterns returns the first pattern, in the order Hammer,
\* Shooting Star, Doji, Bullish Engulfing, Bearish Engulfing, Morning Star,
\* Evening Star, whose criteria hold on the window ending at the index, and
\* None when none holds or the index is out of range; so a candle meeting both
\* the Hammer and the Doji criteria is a Hammer, and the two- and three-candle
\* patterns are reported only from index 1 and index 2 on.
C9_FirstMatchInOrder ==
    pc = "detect_done" =>
        IF ~InRange(df, index) THEN pattern_out = NoPattern
        ELSE /\ \/ /\ pattern_out = NoPattern
                   /\ \A k \in 1..7 : ~CritHolds(k, df, index)
                \/ \E k \in 1..7 :
                      /\ pattern_out = PatternOrder[k]
                      /\ CritHolds(k, df, index)
                      /\ \A j \in 1..(k - 1) : ~CritHolds(j, df, index)
             /\ (CritHammer(Iloc(df, index)) /\ CritDoji(Iloc(df, index)))
                    => pattern_out = HAMMER
             /\ pattern_out \in {BULLISH_ENGULFING, BEARISH_ENGULFING} => index >= 1
             /\ pattern_out \in {MORNING_STAR, EVENING_STAR} => index >= 2

\* a candle meeting both the Hammer and the Doji criteria has been classified
C9_Witness ==
    /\ pc = "detect_done"
    /\ InRange(df, index)
    /\ CritHammer(Iloc(df, index)) /\ CritDoji(Iloc(df, index))
    /\ pattern_out = HAMMER

\* C10: a candle with high = low at the index is never given a pattern,
\* whatever its open and close and whatever its predecessors.
C10_ZeroRangeIsNone ==
    (pc = "detect_done" /\ InRange(df, index)
        /\ Iloc(df, index).high = Iloc(df, index).low)
    => pattern_out = NoPattern

-----------------------------------------------------------------------------
(* app/ema.py and app/candles.py *)

RECURSIVE EmaLoop_SwappedWeights(_, _, _)
\* a loop that weights the previous EMA by alpha and the price by 1 - alpha
EmaLoop_SwappedWeights(prices, alpha, ema) ==
    IF Len(ema) = Len(prices) THEN ema
    ELSE EmaLoop_SwappedWeights(prices, alpha,
             Append(ema, RAdd(RMul(RSub(RInt(1), alpha), prices[Len(ema) + 1]),
                              RMul(alpha, ema[Len(ema)]))))

RECURSIVE EmaLoop(_, _, _)
\* lines 38-39: the loop that fills ema[1..], given ema[0..Len(ema)-1]
EmaLoop(prices, alpha, ema) ==
    IF Len(ema) = Len(prices) THEN ema
    ELSE EmaLoop(prices, alpha,
                 Append(ema, RAdd(RMul(alpha, prices[Len(ema) + 1]),
                                  RMul(RSub(RInt(1), alpha), ema[Len(ema)]))))

calculate_ema(prices, period) ==
    IF Len(prices) = 0 THEN <<>>
    ELSE EmaLoop(prices, Rat(2, period + 1), <<prices[1]>>)

\* a filter that also admits the candle closing exactly at the cutoff
filter_complete_candles_Inclusive(frame, before_timestamp) ==
    IF frame = <<>> THEN frame
    ELSE SelectSeq(frame, LAMBDA c : c.close_time <= before_timestamp)

filter_complete_candles(frame, before_timestamp) ==
    IF frame = <<>> THEN frame
    ELSE SelectSeq(frame, LAMBDA c : c.close_time < before_timestamp)

ClosePrices(frame) == [k \in 1..Len(frame) |-> RInt(frame[k].close)]

\* a query that requires only short_period completed candles
get_ema_at_timestamp_ShortOnly(frame, target_timestamp, short_period, long_period) ==
    IF frame = <<>> THEN <<None, None>>
    ELSE LET completed_candles == filter_complete_candles(frame, target_timestamp) IN
         IF Len(completed_candles) = 0 THEN <<None, None>>
         ELSE IF Len(completed_candles) < short_period
              THEN <<None, None>>
         ELSE LET prices == ClosePrices(completed_candles)
              IN  << Some(Last(calculate_ema(prices, short_period))),
                     Some(Last(calculate_ema(prices, long_period))) >>

get_ema_at_timestamp(frame, target_timestamp, short_period, long_period) ==
    IF frame = <<>> THEN <<None, None>>
    ELSE LET completed_candles == filter_complete_candles(frame, target_timestamp) IN
         IF Len(completed_candles) = 0 THEN <<None, None>>
         ELSE IF Len(completed_candles) < Max(short_period, long_period)
              THEN <<None, None>>
         ELSE LET prices == ClosePrices(completed_candles)
                  ema_short_array == calculate_ema(prices, short_period)
                  ema_long_array == calculate_ema(prices, long_period)
              IN  << IF Len(ema_short_array) > 0
                        THEN Some(Last(ema_short_array)) ELSE None,
                     IF Len(ema_long_array) > 0
                        THEN Some(Last(ema_long_array)) ELSE None >>

RECURSIVE Reverse(_)
Reverse(s) == IF s = <<>> THEN <<>> ELSE Append(Reverse(Tail(s)), s[1])

\* a precomputation that runs the EMA from the newest candle to the oldest
precompute_ema_series_NewestFirst(frame, period) ==
    IF frame = <<>> THEN <<>>
    ELSE Reverse(calculate_ema(Reverse(ClosePrices(frame)), period))

precompute_ema_series(frame, period) ==
    IF frame = <<>> THEN <<>>
    ELSE calculate_ema(ClosePrices(frame), period)

-----------------------------------------------------------------------------
(* get_ema_at_timestamp analysed alone, on two reference series at once.   *)
(* A reference candle closing at time t opened at t - 1; a series holds    *)
(* at most one candle per close time, in ascending order, with close       *)
(* price 1 or 2.                                                           *)

RefCloses == {1, 2}

RefCandle(t, c) == [timestamp |-> t - 1, close_time |-> t, close |-> c]

RECURSIVE RefSeriesFrom(_, _)
\* every ascending series over the close times t..last
RefSeriesFrom(t, last) ==
    IF t > last THEN {<<>>}
    ELSE LET rest == RefSeriesFrom(t + 1, last) IN
         rest \cup {<<RefCandle(t, c)>> \o r : c \in RefCloses, r \in rest}

InitEma ==
    /\ pc = "ema_call"
    /\ df_4h \in RefSeriesFrom(1, MaxEmaTime)
    /\ df_4h_b \in RefSeriesFrom(1, MaxEmaTime)
    /\ ema_args \in [target : 0..(MaxEmaTime + 1),
                     short_period : 1..MaxPeriod,
                     long_period : 1..MaxPeriod]
    /\ ema_out = None
    /\ ema_out_b = None
    /\ ema_series = None
    /\ df = <<>>
    /\ self = None /\ i = 0 /\ current_position = None /\ result = None
    /\ IdlePattern /\ IdleMerge /\ IdleUnits

GetEma ==
    /\ pc = "ema_call"
    /\ ema_out' = get_ema_at_timestamp(df_4h, ema_args.target,
                                       ema_args.short_period, ema_args.long_period)
    /\ ema_out_b' = get_ema_at_timestamp(df_4h_b, ema_args.target,
                                         ema_args.short_period, ema_args.long_period)
    /\ pc' = "ema_done"
    /\ UNCHANGED <<df, self, df_4h, i, current_position, result, df_4h_b, ema_args,
                   ema_series, patVars, mergeVars, unitVars>>

\* the EMA series of both periods computed once over the whole reference series
PrecomputeEma ==
    /\ pc = "ema_done"
    /\ ema_series' = Some(<<precompute_ema_series(df_4h, ema_args.short_period),
                            precompute_ema_series(df_4h, ema_args.long_period)>>)
    /\ pc' = "ema_series_done"
    /\ UNCHANGED <<df, self, df_4h, i, current_position, result, df_4h_b, ema_args,
                   ema_out, ema_out_b, patVars, mergeVars, unitVars>>

NextEma == GetEma \/ PrecomputeEma

SpecEma == InitEma /\ [][NextEma]_vars

\* the candles of a series that closed strictly before a time
ClosedBefore(frame, t) == SelectSeq(frame, LAMBDA c : c.close_time < t)

\* C5: the pair returned by get_ema_at_timestamp depends only on the candles
\* whose close_time is strictly before the target: two reference series with
\* the same candles closed before the target, whatever their candles closing
\* at or after it, yield the same pair.
C5_NoLookAhead ==
    (pc = "ema_done"
        /\ ClosedBefore(df_4h, ema_args.target) = ClosedBefore(df_4h_b, ema_args.target))
    => ema_out = ema_out_b

\* two series that differ only at or after the target gave the same present values
C5_Witness ==
    /\ pc = "ema_done"
    /\ df_4h # df_4h_b
    /\ ClosedBefore(df_4h, ema_args.target) = ClosedBefore(df_4h_b, ema_args.target)
    /\ \E c \in {df_4h[k] : k \in 1..Len(df_4h)} : c.close_time = ema_args.target
    /\ ema_out[1] # None /\ ema_out[2] # None
    /\ ema_out[1] # ema_out[2]
    /\ ema_out = ema_out_b

-----------------------------------------------------------------------------
(* app/cache.py: load_cache and merge_with_cache.  A row is                *)
(* [timestamp, close]; the cache file holds the klines last saved, or is   *)
(* absent (None).  Time is counted in days and the present, Now, lies      *)
(* after every candle.                                                     *)

Now == MaxTime + 1

RECURSIVE InsertByTimestamp(_, _)
InsertByTimestamp(row, sorted) ==
    IF sorted = <<>> THEN <<row>>
    ELSE IF row.timestamp < sorted[1].timestamp THEN <<row>> \o sorted
    ELSE <<sorted[1]>> \o InsertByTimestamp(row, Tail(sorted))

RECURSIVE SortByTimestamp(_)
\* frame.sort_values("timestamp").reset_index(drop=True)
SortByTimestamp(frame) ==
    IF frame = <<>> THEN <<>>
    ELSE InsertByTimestamp(frame[Len(frame)],
                           SortByTimestamp(SubSeq(frame, 1, Len(frame) - 1)))

RECURSIVE DropDuplicatesKeepFirst(_)
\* a deduplication that keeps the first row of each timestamp
DropDuplicatesKeepFirst(frame) ==
    IF frame = <<>> THEN <<>>
    ELSE LET n == Len(frame)
             init == SubSeq(frame, 1, n - 1)
         IN  IF \E k \in 1..(n - 1) : frame[k].timestamp = frame[n].timestamp
             THEN DropDuplicatesKeepFirst(init)
             ELSE DropDuplicatesKeepFirst(init) \o <<frame[n]>>

RECURSIVE DropDuplicatesKeepLast(_)
\* frame.drop_duplicates(subset=["timestamp"], keep="last")
DropDuplicatesKeepLast(frame) ==
    IF frame = <<>> THEN <<>>
    ELSE IF \E k \in 2..Len(frame) : frame[k].timestamp = frame[1].timestamp
         THEN DropDuplicatesKeepLast(Tail(frame))
         ELSE <<frame[1]>> \o DropDuplicatesKeepLast(Tail(frame))

load_cache(file) ==
    IF IsNone(file) THEN None
    ELSE IF Get(file) = <<>> THEN None
    ELSE Some(SortByTimestamp(Get(file)))

merge_with_cache(file, incoming, keep_days) ==
    LET cached_df == load_cache(file) IN
    IF IsNone(cached_df) \/ Len(Get(cached_df)) = 0 THEN incoming
    ELSE LET combined_df == SortByTimestamp(
                                DropDuplicatesKeepLast(Get(cached_df) \o incoming))
         IN  IF ~IsNone(keep_days)
             THEN SelectSeq(combined_df,
                            LAMBDA row : row.timestamp >= Now - Get(keep_days))
             ELSE combined_df

-----------------------------------------------------------------------------
(* merge_with_cache analysed alone.  The cache file holds an ascending     *)
(* series (what save_cache wrote); new_df is any sequence of rows, sorted  *)
(* or not, with or without repeated timestamps.                            *)

MergeRow(t, c) == [timestamp |-> t, close |-> c]

MergeRows == {MergeRow(t, c) : t \in 1..MaxTime, c \in RefCloses}

RECURSIVE AscendingFrom(_, _)
\* every strictly ascending series over the timestamps t..last
AscendingFrom(t, last) ==
    IF t > last THEN {<<>>}
    ELSE LET rest == AscendingFrom(t + 1, last) IN
         rest \cup {<<MergeRow(t, c)>> \o r : c \in RefCloses, r \in rest}

RECURSIVE FramesUpTo(_)
\* every sequence of at most n rows
FramesUpTo(n) ==
    IF n = 0 THEN {<<>>}
    ELSE LET shorter == FramesUpTo(n - 1) IN
         shorter \cup {f \o <<row>> : f \in shorter, row \in MergeRows}

InitMerge ==
    /\ pc = "merge_call"
    /\ cache_file \in {None} \cup {Some(f) : f \in AscendingFrom(1, MaxTime)}
    /\ new_df \in FramesUpTo(MaxNewLen)
    /\ days_back \in {None} \cup {Some(d) : d \in 1..MaxDays}
    /\ merged = None
    /\ df = <<>>
    /\ IdleBacktest /\ IdlePattern /\ IdleEma /\ IdleUnits

MergeWithCache ==
    /\ pc = "merge_call"
    /\ merged' = Some(merge_with_cache(cache_file, new_df, days_back))
    /\ pc' = "merge_done"
    /\ UNCHANGED <<df, cache_file, new_df, days_back, btVars, patVars, emaVars, unitVars>>

NextMerge == MergeWithCache

SpecMerge == InitMerge /\ [][NextMerge]_vars

StrictlyAscending(frame) ==
    \A k \in 1..(Len(frame) - 1) : frame[k].timestamp < frame[k + 1].timestamp

Timestamps(frame) == {frame[k].timestamp : k \in 1..Len(frame)}
Rows(frame) == {frame[k] : k \in 1..Len(frame)}
CachedRows == IF IsNone(cache_file) THEN <<>> ELSE Get(cache_file)

\* C6: with no retention window, merging a cached series and an incoming
\* series (each strictly ascending by timestamp) returns a series with
\* strictly ascending, unique timestamps, as many rows as there are distinct
\* timestamps in the two inputs, and, at every timestamp the incoming series
\* holds, the incoming row.
C6_MergeNoRetention ==
    (pc = "merge_done" /\ IsNone(days_back) /\ StrictlyAscending(new_df)) =>
        LET r == Get(merged) IN
        /\ StrictlyAscending(r)
        /\ Len(r) = Cardinality(Timestamps(CachedRows) \cup Timestamps(new_df))
        /\ Rows(new_df) \subseteq Rows(r)
        /\ Rows(r) \subseteq Rows(CachedRows) \cup Rows(new_df)

\* a cached row was replaced by an incoming row with another close
C6_Witness ==
    /\ pc = "merge_done" /\ IsNone(days_back) /\ StrictlyAscending(new_df)
    /\ \E a \in Rows(CachedRows), b \in Rows(new_df) :
          /\ a.timestamp = b.timestamp /\ a.close # b.close
          /\ b \in Rows(Get(merged)) /\ a \notin Rows(Get(merged))
    /\ Len(Get(merged)) > Len(new_df)

\* C7: when one input of the merge is empty (no cached series, or no
\* incoming rows) the result has strictly ascending, unique timestamps, even
\* if the other input was unsorted or repeated a timestamp.
C7_EmptyInputSortedUnique ==
    (pc = "merge_done" /\ (IsNone(load_cache(cache_file)) \/ new_df = <<>>))
    => StrictlyAscending(Get(merged))

\* C8: when a retention window is given, no returned row is older than
\* Now - days_back, also when the cache is empty or missing.
C8_RetentionCutoff ==
    (pc = "merge_done" /\ ~IsNone(days_back)) =>
        \A row \in Rows(Get(merged)) : row.timestamp >= Now - Get(days_back)

-----------------------------------------------------------------------------
(* app/config.py: the settings read by Backtester.__init__ *)

settings_trade_amount == RInt(100)
settings_trade_fee_percent == Rat(1, 1000)
settings_take_profit_percent == Rat(8, 100)
settings_stop_loss_percent == Rat(-6, 100)
settings_ema_short_period == 1
\* settings.ema_long_period is read from the environment (99 when unset); the
\* runs explored take the long period MaxPeriod, which is above the short one
\* and which the reference series is long enough to reach (ema.py line 74)
SettingsEmaLongPeriods == {MaxPeriod}

-----------------------------------------------------------------------------
(* app/strategy.py: Backtester.__init__ *)

\* Python's  x or default : None and 0.0 are both falsy
OrDefault(arg, default) ==
    IF IsNone(arg) THEN default
    ELSE IF Get(arg).n = 0 THEN default
    ELSE Get(arg)

\* lines 36-41; ema_long_period stands for settings.ema_long_period of the run
Backtester_init(trade_amount, fee_percent, take_profit, stop_loss, ema_long_period) ==
    [trade_amount |-> OrDefault(trade_amount, settings_trade_amount),
     fee_percent |-> OrDefault(fee_percent, settings_trade_fee_percent),
     take_profit |-> OrDefault(take_profit, settings_take_profit_percent),
     stop_loss |-> OrDefault(stop_loss, settings_stop_loss_percent),
     ema_short_period |-> settings_ema_short_period,
     ema_long_period |-> ema_long_period]

-----------------------------------------------------------------------------
(* app/types.py: Position and BacktestResult (symbol and timeframe, which  *)
(* are only copied, are left out)                                          *)

NewPosition(entry_time, entry_price, quantity, pattern, ema_short, ema_long) ==
    [entry_time |-> entry_time,
     entry_price |-> entry_price,
     quantity |-> quantity,
     pattern |-> pattern,
     entry_ema_short |-> ema_short,
     entry_ema_long |-> ema_long,
     exit_time |-> None,
     exit_price |-> None,
     exit_reason |-> None,
     exit_ema_short |-> None,
     exit_ema_long |-> None,
     pnl |-> RInt(0),
     pnl_percent |-> RInt(0),
     fees |-> RInt(0),
     net_pnl |-> RInt(0)]

\* a P&L computed as for a short position: entry price minus exit price
calculate_pnl_ShortSide(pos, exit_price, fee_percent) ==
    LET p1 == IF IsNone(pos.exit_price)
              THEN [pos EXCEPT !.exit_price = Some(exit_price)] ELSE pos
        xp == Get(p1.exit_price)
        gross_pnl == RMul(RSub(p1.entry_price, xp), p1.quantity)
        entry_fee == RMul(RMul(p1.entry_price, p1.quantity), fee_percent)
        exit_fee == RMul(RMul(xp, p1.quantity), fee_percent)
    IN  [p1 EXCEPT !.fees = RAdd(entry_fee, exit_fee),
                   !.pnl = gross_pnl,
                   !.net_pnl = RSub(gross_pnl, RAdd(entry_fee, exit_fee)),
                   !.pnl_percent = RDiv(RSub(xp, p1.entry_price), p1.entry_price)]

calculate_pnl(pos, exit_price, fee_percent) ==
    LET p1 == IF IsNone(pos.exit_price)
              THEN [pos EXCEPT !.exit_price = Some(exit_price)] ELSE pos
        xp == Get(p1.exit_price)
        gross_pnl == RMul(RSub(xp, p1.entry_price), p1.quantity)
        entry_fee == RMul(RMul(p1.entry_price, p1.quantity), fee_percent)
        exit_fee == RMul(RMul(xp, p1.quantity), fee_percent)
    IN  [p1 EXCEPT !.fees = RAdd(entry_fee, exit_fee),
                   !.pnl = gross_pnl,
                   !.net_pnl = RSub(gross_pnl, RAdd(entry_fee, exit_fee)),
                   !.pnl_percent = RDiv(RSub(xp, p1.entry_price), p1.entry_price)]

NewBacktestResult(start_date, end_date) ==
    [positions |-> <<>>,
     total_trades |-> 0,
     winning_trades |-> 0,
     losing_trades |-> 0,
     win_rate |-> RInt(0),
     total_pnl |-> RInt(0),
     total_fees |-> RInt(0),
     net_pnl |-> RInt(0),
     avg_win |-> RInt(0),
     avg_loss |-> RInt(0),
     max_drawdown |-> RInt(0),
     sharpe_ratio |-> RInt(0),
     hodl_return |-> RInt(0),
     hodl_pnl |-> RInt(0),
     first_price |-> RInt(0),
     last_price |-> RInt(0),
     start_date |-> start_date,
     end_date |-> end_date,
     ema_filter_blocked |-> 0,
     patterns_detected |-> 0]

-----------------------------------------------------------------------------
(* app/strategy.py: Backtester.backtest *)

\* the trend filter at a timestamp, with the periods of this Backtester
EmaAt(timestamp) ==
    get_ema_at_timestamp(df_4h, timestamp, self.ema_short_period, self.ema_long_period)

CurrentReturn(pos, candle) ==
    RDiv(RSub(RInt(candle.close), pos.entry_price), pos.entry_price)

\* an exit check that tests the stop loss before the take profit
ExitDecision_StopLossFirst(pos, candle) ==
    LET current_return == CurrentReturn(pos, candle)
        emas == EmaAt(candle.timestamp)
    IN  IF RLe(current_return, self.stop_loss)
        THEN [exit_reason |-> Some(STOP_LOSS),
              exit_price |-> RMul(pos.entry_price, RAdd(RInt(1), self.stop_loss))]
        ELSE IF RGe(current_return, self.take_profit)
        THEN [exit_reason |-> Some(TAKE_PROFIT),
              exit_price |-> RMul(pos.entry_price, RAdd(RInt(1), self.take_profit))]
        ELSE IF RLt(current_return, RInt(0))
                /\ ~IsNone(emas[1]) /\ ~IsNone(emas[2])
                /\ RLt(Get(emas[1]), Get(emas[2]))
        THEN [exit_reason |-> Some(EMA_BEARISH), exit_price |-> RInt(candle.close)]
        ELSE [exit_reason |-> None, exit_price |-> RInt(candle.close)]

\* an exit check whose EMA exit does not require the position to be in loss
ExitDecision_EmaExitAtAnyReturn(pos, candle) ==
    LET current_return == CurrentReturn(pos, candle)
        emas == EmaAt(candle.timestamp)
    IN  IF RGe(current_return, self.take_profit)
        THEN [exit_reason |-> Some(TAKE_PROFIT),
              exit_price |-> RMul(pos.entry_price, RAdd(RInt(1), self.take_profit))]
        ELSE IF RLe(current_return, self.stop_loss)
        THEN [exit_reason |-> Some(STOP_LOSS),
              exit_price |-> RMul(pos.entry_price, RAdd(RInt(1), self.stop_loss))]
        ELSE IF ~IsNone(emas[1]) /\ ~IsNone(emas[2])
                /\ RLt(Get(emas[1]), Get(emas[2]))
        THEN [exit_reason |-> Some(EMA_BEARISH), exit_price |-> RInt(candle.close)]
        ELSE [exit_reason |-> None, exit_price |-> RInt(candle.close)]

\* an exit check that fills a stop loss at the candle's close
ExitDecision_StopLossAtClose(pos, candle) ==
    LET current_return == CurrentReturn(pos, candle)
        emas == EmaAt(candle.timestamp)
    IN  IF RGe(current_return, self.take_profit)
        THEN [exit_reason |-> Some(TAKE_PROFIT),
              exit_price |-> RMul(pos.entry_price, RAdd(RInt(1), self.take_profit))]
        ELSE IF RLe(current_return, self.stop_loss)
        THEN [exit_reason |-> Some(STOP_LOSS), exit_price |-> RInt(candle.close)]
        ELSE IF RLt(current_return, RInt(0))
                /\ ~IsNone(emas[1]) /\ ~IsNone(emas[2])
                /\ RLt(Get(emas[1]), Get(emas[2]))
        THEN [exit_reason |-> Some(EMA_BEARISH), exit_price |-> RInt(candle.close)]
        ELSE [exit_reason |-> None, exit_price |-> RInt(candle.close)]

\* lines 94-116: exit_reason and exit_price for an open position at a candle
ExitDecision(pos, candle) ==
    LET current_return == CurrentReturn(pos, candle)
        emas == EmaAt(candle.timestamp)
    IN  IF RGe(current_return, self.take_profit)
        THEN [exit_reason |-> Some(TAKE_PROFIT),
              exit_price |-> RMul(pos.entry_price, RAdd(RInt(1), self.take_profit))]
        ELSE IF RLe(current_return, self.stop_loss)
        THEN [exit_reason |-> Some(STOP_LOSS),
              exit_price |-> RMul(pos.entry_price, RAdd(RInt(1), self.stop_loss))]
        ELSE IF RLt(current_return, RInt(0))
                /\ ~IsNone(emas[1]) /\ ~IsNone(emas[2])
                /\ RLt(Get(emas[1]), Get(emas[2]))
        THEN [exit_reason |-> Some(EMA_BEARISH), exit_price |-> RInt(candle.close)]
        ELSE [exit_reason |-> None, exit_price |-> RInt(candle.close)]

\* lines 120-132 and 175-187: the exit fields, the exit EMAs and the P&L
ClosePosition(pos, timestamp, exit_price, exit_reason) ==
    LET emas == EmaAt(timestamp)
        p1 == [pos EXCEPT !.exit_time = Some(timestamp),
                          !.exit_price = Some(exit_price),
                          !.exit_reason = Some(exit_reason),
                          !.exit_ema_short = emas[1],
                          !.exit_ema_long = emas[2]]
    IN  calculate_pnl(p1, exit_price, self.fee_percent)

\* lines 135-141 and 190-196: append the position and count it
RecordPosition(res, pos) ==
    [res EXCEPT !.positions = Append(@, pos),
                !.total_trades = @ + 1,
                !.winning_trades = IF RGt(pos.net_pnl, RInt(0)) THEN @ + 1 ELSE @,
                !.losing_trades = IF RGt(pos.net_pnl, RInt(0)) THEN @ ELSE @ + 1]

\* an entry test that does not look at the position held
EntryCandidate_IgnoringPosition(pos, pattern) ==
    pattern # NoPattern /\ is_bullish_pattern(pattern)

\* line 146: the entry test
EntryCandidate(pos, pattern) ==
    IsNone(pos) /\ pattern # NoPattern /\ is_bullish_pattern(pattern)

\* a forced close that reads the first candle of the series
ForcedClose_FirstCandle(pos) ==
    LET last_candle == Iloc(df, 0) IN
    ClosePosition(pos, last_candle.timestamp, RInt(last_candle.close), FORCED_CLOSE)

\* lines 174-187: close the position still held after the last candle
ForcedClose(pos) ==
    LET last_candle == Iloc(df, Len(df) - 1) IN
    ClosePosition(pos, last_candle.timestamp, RInt(last_candle.close), FORCED_CLOSE)

\* aggregate statistics whose averages divide by the number of all trades
Aggregate_AveragesOverAllTrades(res) ==
    IF res.total_trades > 0
    THEN LET nets == [k \in 1..Len(res.positions) |-> res.positions[k].net_pnl]
             winning_positions == SelectSeq(nets, LAMBDA x : RGt(x, RInt(0)))
             losing_positions == SelectSeq(nets, LAMBDA x : RLe(x, RInt(0)))
         IN  [res EXCEPT
                !.win_rate = Rat(res.winning_trades, res.total_trades),
                !.total_pnl = RSum([k \in 1..Len(res.positions) |-> res.positions[k].pnl]),
                !.total_fees = RSum([k \in 1..Len(res.positions) |-> res.positions[k].fees]),
                !.net_pnl = RSum(nets),
                !.avg_win = IF Len(winning_positions) > 0
                            THEN RDiv(RSum(winning_positions), RInt(res.total_trades))
                            ELSE @,
                !.avg_loss = IF Len(losing_positions) > 0
                             THEN RDiv(RSum(losing_positions), RInt(res.total_trades))
                             ELSE @]
    ELSE res

\* lines 199-212: the aggregate statistics
Aggregate(res) ==
    IF res.total_trades > 0
    THEN LET nets == [k \in 1..Len(res.positions) |-> res.positions[k].net_pnl]
             winning_positions == SelectSeq(nets, LAMBDA x : RGt(x, RInt(0)))
             losing_positions == SelectSeq(nets, LAMBDA x : RLe(x, RInt(0)))
         IN  [res EXCEPT
                !.win_rate = Rat(res.winning_trades, res.total_trades),
                !.total_pnl = RSum([k \in 1..Len(res.positions) |-> res.positions[k].pnl]),
                !.total_fees = RSum([k \in 1..Len(res.positions) |-> res.positions[k].fees]),
                !.net_pnl = RSum(nets),
                !.avg_win = IF Len(winning_positions) > 0
                            THEN RDiv(RSum(winning_positions), RInt(Len(winning_positions)))
                            ELSE @,
                !.avg_loss = IF Len(losing_positions) > 0
                             THEN RDiv(RSum(losing_positions), RInt(Len(losing_positions)))
                             ELSE @]
    ELSE res

\* a start that computes the HODL benchmark before the short-series return
Begin_HodlBeforeReturn ==
    /\ pc = "bt_call"
    /\ LET n == Len(df)
           res0 == NewBacktestResult(
                       IF n > 0 THEN Some(Iloc(df, 0).timestamp) ELSE None,
                       IF n > 0 THEN Some(Iloc(df, n - 1).timestamp) ELSE None)
           first_price == RInt(Iloc(df, 0).close)
           last_price == RInt(Iloc(df, n - 1).close)
           hodl_return == RDiv(RSub(last_price, first_price), first_price)
           res1 == IF n > 0
                   THEN [res0 EXCEPT !.first_price = first_price,
                                     !.last_price = last_price,
                                     !.hodl_return = hodl_return,
                                     !.hodl_pnl = RMul(self.trade_amount, hodl_return)]
                   ELSE res0
       IN  /\ result' = Some(res1)
           /\ IF n < 3
              THEN pc' = "bt_done" /\ UNCHANGED <<i, current_position>>
              ELSE current_position' = None /\ i' = 2 /\ pc' = "bt_walk"
    /\ UNCHANGED <<self, df, df_4h, patVars, emaVars, mergeVars, unitVars>>

\* lines 62-79: the result object, the short-series return, the HODL benchmark
Begin ==
    /\ pc = "bt_call"
    /\ LET n == Len(df)
           res0 == NewBacktestResult(
                       IF n > 0 THEN Some(Iloc(df, 0).timestamp) ELSE None,
                       IF n > 0 THEN Some(Iloc(df, n - 1).timestamp) ELSE None)
       IN  IF n < 3
           THEN /\ result' = Some(res0)
                /\ pc' = "bt_done"
                /\ UNCHANGED <<i, current_position>>
           ELSE LET first_price == RInt(Iloc(df, 0).close)
                    last_price == RInt(Iloc(df, n - 1).close)
                    hodl_return == RDiv(RSub(last_price, first_price), first_price)
                IN  /\ result' = Some([res0 EXCEPT
                                         !.first_price = first_price,
                                         !.last_price = last_price,
                                         !.hodl_return = hodl_return,
                                         !.hodl_pnl = RMul(self.trade_amount, hodl_return)])
                    /\ current_position' = None
                    /\ i' = 2
                    /\ pc' = "bt_walk"
    /\ UNCHANGED <<self, df, df_4h, patVars, emaVars, mergeVars, unitVars>>

\* a walk that handles the entry first and then the exit of the position held,
\* the one just opened included
Step_ExitAfterEntry ==
    /\ pc = "bt_walk"
    /\ i < Len(df)
    /\ LET candle == Iloc(df, i)
           timestamp == candle.timestamp
           pattern == detect_patterns(df, i)
           res1 == IF pattern # NoPattern
                   THEN [Get(result) EXCEPT !.patterns_detected = @ + 1]
                   ELSE Get(result)
           emas == EmaAt(timestamp)
           candidate == EntryCandidate(current_position, pattern)
           filtered == candidate /\ ~IsNone(emas[1]) /\ ~IsNone(emas[2])
           entering == filtered /\ RGt(Get(emas[1]), Get(emas[2]))
           entry_price == RInt(candle.close)
           pos1 == IF entering
                   THEN Some(NewPosition(timestamp, entry_price,
                                         RDiv(self.trade_amount, entry_price), pattern,
                                         Get(emas[1]), Get(emas[2])))
                   ELSE current_position
           res2 == IF filtered /\ ~entering
                   THEN [res1 EXCEPT !.ema_filter_blocked = @ + 1]
                   ELSE res1
           decision == ExitDecision(Get(pos1), candle)
           exiting == ~IsNone(pos1) /\ ~IsNone(decision.exit_reason)
           closed == ClosePosition(Get(pos1), timestamp,
                                   decision.exit_price, Get(decision.exit_reason))
       IN  /\ current_position' = IF exiting THEN None ELSE pos1
           /\ result' = IF exiting THEN Some(RecordPosition(res2, closed)) ELSE Some(res2)
    /\ i' = i + 1
    /\ UNCHANGED <<pc, self, df, df_4h, patVars, emaVars, mergeVars, unitVars>>

\* a walk that counts a detected pattern only while no position is held
Step_PatternsCountedWhenFlat ==
    /\ pc = "bt_walk"
    /\ i < Len(df)
    /\ LET candle == Iloc(df, i)
           timestamp == candle.timestamp
           pattern == detect_patterns(df, i)
           res1 == IF pattern # NoPattern /\ IsNone(current_position)
                   THEN [Get(result) EXCEPT !.patterns_detected = @ + 1]
                   ELSE Get(result)
           decision == ExitDecision(Get(current_position), candle)
           exiting == ~IsNone(current_position) /\ ~IsNone(decision.exit_reason)
           closed == ClosePosition(Get(current_position), timestamp,
                                   decision.exit_price, Get(decision.exit_reason))
           res2 == IF exiting THEN RecordPosition(res1, closed) ELSE res1
           pos2 == IF exiting THEN None ELSE current_position
           emas == EmaAt(timestamp)
           candidate == EntryCandidate(pos2, pattern)
           filtered == candidate /\ ~IsNone(emas[1]) /\ ~IsNone(emas[2])
           entering == filtered /\ RGt(Get(emas[1]), Get(emas[2]))
           entry_price == RInt(candle.close)
       IN  /\ current_position' =
                 IF entering
                 THEN Some(NewPosition(timestamp, entry_price,
                                       RDiv(self.trade_amount, entry_price), pattern,
                                       Get(emas[1]), Get(emas[2])))
                 ELSE pos2
           /\ result' =
                 IF filtered /\ ~entering
                 THEN Some([res2 EXCEPT !.ema_filter_blocked = @ + 1])
                 ELSE Some(res2)
    /\ i' = i + 1
    /\ UNCHANGED <<pc, self, df, df_4h, patVars, emaVars, mergeVars, unitVars>>

\* a walk whose entry test looks at the position held before the exit check
Step_EntryBeforeExit ==
    /\ pc = "bt_walk"
    /\ i < Len(df)
    /\ LET candle == Iloc(df, i)
           timestamp == candle.timestamp
           pattern == detect_patterns(df, i)
           res1 == IF pattern # NoPattern
                   THEN [Get(result) EXCEPT !.patterns_detected = @ + 1]
                   ELSE Get(result)
           decision == ExitDecision(Get(current_position), candle)
           exiting == ~IsNone(current_position) /\ ~IsNone(decision.exit_reason)
           closed == ClosePosition(Get(current_position), timestamp,
                                   decision.exit_price, Get(decision.exit_reason))
           res2 == IF exiting THEN RecordPosition(res1, closed) ELSE res1
           pos2 == IF exiting THEN None ELSE current_position
           emas == EmaAt(timestamp)
           candidate == EntryCandidate(current_position, pattern)
           filtered == candidate /\ ~IsNone(emas[1]) /\ ~IsNone(emas[2])
           entering == filtered /\ RGt(Get(emas[1]), Get(emas[2]))
           entry_price == RInt(candle.close)
       IN  /\ current_position' =
                 IF entering
                 THEN Some(NewPosition(timestamp, entry_price,
                                       RDiv(self.trade_amount, entry_price), pattern,
                                       Get(emas[1]), Get(emas[2])))
                 ELSE pos2
           /\ result' =
                 IF filtered /\ ~entering
                 THEN Some([res2 EXCEPT !.ema_filter_blocked = @ + 1])
                 ELSE Some(res2)
    /\ i' = i + 1
    /\ UNCHANGED <<pc, self, df, df_4h, patVars, emaVars, mergeVars, unitVars>>

\* a walk that counts an entry without EMA values as blocked by the filter
Step_AbsentEmaBlocked ==
    /\ pc = "bt_walk"
    /\ i < Len(df)
    /\ LET candle == Iloc(df, i)
           timestamp == candle.timestamp
           pattern == detect_patterns(df, i)
           res1 == IF pattern # NoPattern
                   THEN [Get(result) EXCEPT !.patterns_detected = @ + 1]
                   ELSE Get(result)
           decision == ExitDecision(Get(current_position), candle)
           exiting == ~IsNone(current_position) /\ ~IsNone(decision.exit_reason)
           closed == ClosePosition(Get(current_position), timestamp,
                                   decision.exit_price, Get(decision.exit_reason))
           res2 == IF exiting THEN RecordPosition(res1, closed) ELSE res1
           pos2 == IF exiting THEN None ELSE current_position
           emas == EmaAt(timestamp)
           candidate == EntryCandidate(pos2, pattern)
           filtered == candidate /\ ~IsNone(emas[1]) /\ ~IsNone(emas[2])
           entering == filtered /\ RGt(Get(emas[1]), Get(emas[2]))
           entry_price == RInt(candle.close)
       IN  /\ current_position' =
                 IF entering
                 THEN Some(NewPosition(timestamp, entry_price,
                                       RDiv(self.trade_amount, entry_price), pattern,
                                       Get(emas[1]), Get(emas[2])))
                 ELSE pos2
           /\ result' =
                 IF candidate /\ ~entering
                 THEN Some([res2 EXCEPT !.ema_filter_blocked = @ + 1])
                 ELSE Some(res2)
    /\ i' = i + 1
    /\ UNCHANGED <<pc, self, df, df_4h, patVars, emaVars, mergeVars, unitVars>>

\* lines 82-170: one iteration of the candle walk
Step ==
    /\ pc = "bt_walk"
    /\ i < Len(df)
    /\ LET candle == Iloc(df, i)
           timestamp == candle.timestamp
           pattern == detect_patterns(df, i)
           res1 == IF pattern # NoPattern
                   THEN [Get(result) EXCEPT !.patterns_detected = @ + 1]
                   ELSE Get(result)
           decision == ExitDecision(Get(current_position), candle)
           exiting == ~IsNone(current_position) /\ ~IsNone(decision.exit_reason)
           closed == ClosePosition(Get(current_position), timestamp,
                                   decision.exit_price, Get(decision.exit_reason))
           res2 == IF exiting THEN RecordPosition(res1, closed) ELSE res1
           pos2 == IF exiting THEN None ELSE current_position
           emas == EmaAt(timestamp)
           candidate == EntryCandidate(pos2, pattern)
           filtered == candidate /\ ~IsNone(emas[1]) /\ ~IsNone(emas[2])
           entering == filtered /\ RGt(Get(emas[1]), Get(emas[2]))
           entry_price == RInt(candle.close)
       IN  /\ current_position' =
                 IF entering
                 THEN Some(NewPosition(timestamp, entry_price,
                                       RDiv(self.trade_amount, entry_price), pattern,
                                       Get(emas[1]), Get(emas[2])))
                 ELSE pos2
           /\ result' =
                 IF filtered /\ ~entering
                 THEN Some([res2 EXCEPT !.ema_filter_blocked = @ + 1])
                 ELSE Some(res2)
    /\ i' = i + 1
    /\ UNCHANGED <<pc, self, df, df_4h, patVars, emaVars, mergeVars, unitVars>>

\* lines 172-214: forced close, aggregate statistics, return
Finish ==
    /\ pc = "bt_walk"
    /\ i >= Len(df)
    /\ LET closed == ForcedClose(Get(current_position))
           res1 == IF ~IsNone(current_position)
                   THEN RecordPosition(Get(result), closed)
                   ELSE Get(result)
       IN  /\ current_position' =
                 IF ~IsNone(current_position) THEN Some(closed) ELSE None
           /\ result' = Some(Aggregate(res1))
    /\ pc' = "bt_done"
    /\ UNCHANGED <<self, df, df_4h, i, patVars, emaVars, mergeVars, unitVars>>

-----------------------------------------------------------------------------
(* The runs of Backtester.backtest that are explored *)

\* candle shapes of the trading series (open, high, low, close)
Shape(o, h, l, c) == [open |-> o, high |-> h, low |-> l, close |-> c]

HammerAt100 == Shape(100, 100, 90, 100)
HammerAt108 == Shape(108, 108, 100, 108)
FallTo97 == Shape(100, 100, 97, 97)
RiseTo101 == Shape(96, 101, 96, 101)

TradingShapes == {HammerAt100, HammerAt108, FallTo97, RiseTo101}

\* a candle whose prices are all 0
ZeroClose == Shape(0, 0, 0, 0)

\* the k-th candle of a trading series opens at time k
TradingCandle(shape, k) ==
    [timestamp |-> k, open |-> shape.open, high |-> shape.high,
     low |-> shape.low, close |-> shape.close]

RECURSIVE TradingFrames(_)
\* every trading series of at most n candles
TradingFrames(n) ==
    IF n = 0 THEN {<<>>}
    ELSE LET shorter == TradingFrames(n - 1) IN
         shorter \cup {f \o <<TradingCandle(sh, Len(f) + 1)>> :
                          f \in {g \in shorter : Len(g) = n - 1}, sh \in TradingShapes}

RECURSIVE RefPrefixes(_)
\* every reference series with one candle per close time 1..m, m <= n
RefPrefixes(n) ==
    IF n = 0 THEN {<<>>}
    ELSE LET shorter == RefPrefixes(n - 1) IN
         shorter \cup {f \o <<RefCandle(n, c)>> :
                          f \in {g \in shorter : Len(g) = n - 1}, c \in RefCloses}

\* the reference series of a run: none downloaded, or one candle per close
\* time 1..n
RefFrames(n) == {f \in RefPrefixes(n) : Len(f) \in {0, n}}

\* the three-candle trading series that open with a candle closing at 0
ZeroFirstFrames ==
    {[f EXCEPT ![1] = TradingCandle(ZeroClose, 1)] :
        f \in {g \in TradingFrames(MaxLen) : Len(g) = 3}}

\* trading series that break the ordering of section 3: a repeated timestamp,
\* a descending pair
MalformedTimestamps == {<<1, 1, 2>>, <<2, 1, 3>>}

MalformedTradingFrames ==
    {[k \in 1..3 |-> [TradingCandle(HammerAt100, k) EXCEPT !.timestamp = ts[k]]] :
        ts \in MalformedTimestamps}

\* reference series that repeat a candle or list two candles in descending order
MalformedRefFrames ==
    {<<RefCandle(2, c), RefCandle(1, d)>> : c \in RefCloses, d \in RefCloses}
    \cup {<<RefCandle(1, c), RefCandle(1, d)>> : c \in RefCloses, d \in RefCloses}

\* the well-formed series of three hammers
ThreeHammers == [k \in 1..3 |-> TradingCandle(HammerAt100, k)]

\* the (df, df_4h) pairs given to backtest
RunInputs ==
    ((TradingFrames(MaxLen) \cup ZeroFirstFrames \cup MalformedTradingFrames)
        \X RefFrames(MaxRefTime))
    \cup ({ThreeHammers} \X MalformedRefFrames)

\* constructor arguments of the Backtester
TradeAmountArgs == {None}
FeePercentArgs == {None}
TakeProfitArgs == {None}
StopLossArgs == {None, Some(Rat(1, 10))}

Init ==
    /\ pc = "bt_call"
    /\ self \in {Backtester_init(ta, fee, tp, sl, lp) :
                    ta \in TradeAmountArgs, fee \in FeePercentArgs,
                    tp \in TakeProfitArgs, sl \in StopLossArgs,
                    lp \in SettingsEmaLongPeriods}
    /\ \E input \in RunInputs : df = input[1] /\ df_4h = input[2]
    /\ i = 0
    /\ current_position = None
    /\ result = None
    /\ IdlePattern /\ IdleEma /\ IdleMerge /\ IdleUnits

Next == Begin \/ Step \/ Finish

Spec == Init /\ [][Next]_vars

-----------------------------------------------------------------------------
(* Two runs of backtest on one Backtester and one reference series.  The   *)
(* arguments and locals of a call (df, i, current_position, result and the *)
(* position in the code) belong to the call; self and df_4h are shared.    *)
(* First each run executes alone and its result is kept; then both start   *)
(* again and execute interleaved, a switch being possible between any two  *)
(* steps.                                                                  *)

\* the trading series of the two runs: four candles, the first two hammers
TwoRunFrames ==
    {<<TradingCandle(HammerAt100, 1), TradingCandle(HammerAt100, 2),
       TradingCandle(s, 3), TradingCandle(t, 4)>> :
        s \in TradingShapes, t \in TradingShapes}

\* the shared reference series: rising and staying up, or rising and falling
TwoRunRefs ==
    {<<RefCandle(1, 1), RefCandle(2, 2), RefCandle(3, 2)>>,
     <<RefCandle(1, 1), RefCandle(2, 2), RefCandle(3, 1)>>}

\* a call of backtest that has not started
Call(frame) ==
    [pc |-> "bt_call", df |-> frame, i |-> 0, current_position |-> None,
     result |-> None]

\* the call that is executing
Executing ==
    [pc |-> pc, df |-> df, i |-> i, current_position |-> current_position,
     result |-> result]

InitTwo ==
    /\ pc = "bt_call"
    /\ self \in {Backtester_init(None, None, None, None, lp) :
                    lp \in SettingsEmaLongPeriods}
    /\ df \in TwoRunFrames
    /\ df_4h \in TwoRunRefs
    /\ i = 0
    /\ current_position = None
    /\ result = None
    /\ run = 1
    /\ parked \in {Some(Call(f)) : f \in TwoRunFrames}
    /\ alone = <<>>
    /\ IdlePattern /\ IdleEma /\ IdleMerge /\ IdlePnl /\ IdleCalc /\ IdleReport /\ IdleArgs

\* resume the call held in p
Resume(p) ==
    /\ pc' = p.pc
    /\ df' = p.df
    /\ i' = p.i
    /\ current_position' = p.current_position
    /\ result' = p.result

\* a switch under which current_position is one attribute shared by both runs
Switch_SharedPosition ==
    /\ Len(alone) = 2
    /\ Get(parked).pc # "bt_done"
    /\ pc' = Get(parked).pc
    /\ df' = Get(parked).df
    /\ i' = Get(parked).i
    /\ result' = Get(parked).result
    /\ parked' = Some(Executing)
    /\ run' = 3 - run
    /\ UNCHANGED <<current_position, self, df_4h, alone, patVars, emaVars,
                   mergeVars, pnlVars, calcVars, reportVars, argVars>>

\* the executing run is suspended between two steps and the other resumes
Switch ==
    /\ Len(alone) = 2
    /\ Get(parked).pc # "bt_done"
    /\ Resume(Get(parked))
    /\ parked' = Some(Executing)
    /\ run' = 3 - run
    /\ UNCHANGED <<self, df_4h, alone, patVars, emaVars, mergeVars, pnlVars, calcVars, reportVars, argVars>>

\* a run executed alone has returned: keep its result and let the other run
\* start; after both, both start again
ReturnAlone ==
    /\ Len(alone) < 2
    /\ pc = "bt_done"
    /\ alone' = Append(alone, Get(result))
    /\ Resume(Get(parked))
    /\ parked' = Some(Call(df))
    /\ run' = 3 - run
    /\ UNCHANGED <<self, df_4h, patVars, emaVars, mergeVars, pnlVars, calcVars, reportVars, argVars>>

NextTwo == Begin \/ Step \/ Finish \/ Switch \/ ReturnAlone

SpecTwo == InitTwo /\ [][NextTwo]_vars

-----------------------------------------------------------------------------
(* Properties of Backtester.backtest *)

IsOpen(pos) == IsNone(pos.exit_time)

\* the positions appended to result.positions so far
Recorded == IF IsNone(result) THEN <<>> ELSE Get(result).positions

\* the number of positions of the run that have no exit_time
OpenCount ==
    Cardinality({k \in 1..Len(Recorded) : IsOpen(Recorded[k])})
    + (IF ~IsNone(current_position) /\ IsOpen(Get(current_position)) THEN 1 ELSE 0)

\* the step creates a Position object
Opens ==
    /\ pc = "bt_walk"
    /\ ~IsNone(current_position')
    /\ IsOpen(Get(current_position'))
    /\ current_position' # current_position

\* C1: throughout the candle walk at most one position is open and every
\* position already appended to result.positions is closed; a step creates a
\* position only if no position was held, or the position held was closed and
\* appended in that same step before the entry test.
C1_AtMostOneOpen ==
    /\ [](pc = "bt_walk" =>
            /\ OpenCount <= 1
            /\ \A k \in 1..Len(Recorded) : ~IsOpen(Recorded[k]))
    /\ [][Opens =>
            \/ IsNone(current_position)
            \/ /\ Len(Get(result').positions) = Len(Recorded) + 1
               /\ ~IsOpen(Last(Get(result').positions))
               /\ Last(Get(result').positions).entry_time
                    = Get(current_position).entry_time]_vars

\* a position was closed and recorded, and a later one is open
C1_Witness ==
    /\ pc = "bt_walk"
    /\ Len(Recorded) >= 1
    /\ ~IsNone(current_position)
    /\ IsOpen(Get(current_position))
    /\ Get(current_position).entry_time >= Get(Last(Recorded).exit_time)

\* C2: a step of the walk opens a position at candle i only if
\* detect_patterns(df, i) is Hammer, Bullish Engulfing or Morning Star and
\* get_ema_at_timestamp at the candle's timestamp gives both EMAs with the
\* short one strictly above the long one; the position's entry price is the
\* candle's close and its quantity is trade_amount / close.
C2_EntryOnlyIfBullishAndTrend ==
    [][Opens =>
        LET candle == Iloc(df, i)
            emas == get_ema_at_timestamp(df_4h, candle.timestamp,
                                         self.ema_short_period, self.ema_long_period)
            pos == Get(current_position')
        IN  /\ detect_patterns(df, i) \in {HAMMER, BULLISH_ENGULFING, MORNING_STAR}
            /\ ~IsNone(emas[1]) /\ ~IsNone(emas[2])
            /\ RGt(Get(emas[1]), Get(emas[2]))
            /\ pos.entry_time = candle.timestamp
            /\ pos.entry_price = RInt(candle.close)
            /\ pos.quantity = RDiv(self.trade_amount, RInt(candle.close))]_vars

\* a position opened at the candle just walked, on a bullish pattern
C2_Witness ==
    /\ pc = "bt_walk"
    /\ i >= 3
    /\ ~IsNone(current_position)
    /\ IsOpen(Get(current_position))
    /\ Get(current_position).entry_time = Iloc(df, i - 1).timestamp
    /\ Get(current_position).pattern = detect_patterns(df, i - 1)

\* the unrealized return of the position held meets both thresholds at candle i
BothThresholdsMet ==
    /\ pc = "bt_walk"
    /\ i < Len(df)
    /\ ~IsNone(current_position)
    /\ LET current_return == CurrentReturn(Get(current_position), Iloc(df, i))
       IN  /\ RGe(current_return, self.take_profit)
           /\ RLe(current_return, self.stop_loss)

\* C3: when the return of the open position at a candle is both >= take_profit
\* and <= stop_loss, the step at that candle closes the position with reason
\* Take Profit.
C3_TakeProfitPrecedence ==
    [][BothThresholdsMet =>
        /\ Len(Get(result').positions) = Len(Recorded) + 1
        /\ LET closed == Last(Get(result').positions)
           IN  /\ closed.entry_time = Get(current_position).entry_time
               /\ closed.exit_time = Some(Iloc(df, i).timestamp)
               /\ closed.exit_reason = Some(TAKE_PROFIT)]_vars

\* a recorded Take Profit whose exit candle also met the stop-loss threshold
C3_Witness ==
    /\ pc = "bt_walk"
    /\ Len(Recorded) >= 1
    /\ LET closed == Last(Recorded)
           candle == Iloc(df, i - 1)
           current_return == CurrentReturn(closed, candle)
       IN  /\ closed.exit_time = Some(candle.timestamp)
           /\ closed.exit_reason = Some(TAKE_PROFIT)
           /\ RGe(current_return, self.take_profit)
           /\ RLe(current_return, self.stop_loss)

\* C4: when backtest returns, no position is open; a position still held after
\* the last candle has been recorded once, as the last position, with reason
\* Forced Close, the last candle's timestamp and the last candle's close;
\* Forced Close appears on no other recorded position; and total_trades
\* equals len(positions).
C4_ForcedCloseAtEnd ==
    pc = "bt_done" =>
        LET res == Get(result)
            last_candle == Iloc(df, Len(df) - 1)
            forced == {k \in 1..Len(res.positions) :
                          res.positions[k].exit_reason = Some(FORCED_CLOSE)}
        IN  /\ OpenCount = 0
            /\ forced \subseteq {Len(res.positions)}
            /\ \A k \in forced :
                  /\ res.positions[k].exit_time = Some(last_candle.timestamp)
                  /\ res.positions[k].exit_price = Some(RInt(last_candle.close))
            /\ ~IsNone(current_position) =>
                  /\ forced = {Len(res.positions)}
                  /\ Last(res.positions) = Get(current_position)
                  /\ \A k \in 1..(Len(res.positions) - 1) :
                        res.positions[k].entry_time # Get(current_position).entry_time
            /\ res.total_trades = Len(res.positions)

\* a run that ended with a forced close after an earlier recorded exit
C4_Witness ==
    /\ pc = "bt_done"
    /\ Len(Recorded) >= 2
    /\ Last(Recorded).exit_reason = Some(FORCED_CLOSE)
    /\ Last(Recorded).exit_time = Some(Iloc(df, Len(df) - 1).timestamp)

-----------------------------------------------------------------------------
(* Position.calculate_pnl analysed alone: a Position, which may already    *)
(* carry an exit_price, and the arguments of the call are drawn in the     *)
(* initial state and one step applies the method.  The values include      *)
(* those of tests/test_strategy.py (entry 100, quantity 1, fee 0.001,      *)
(* exit 100.9 and 80).                                                     *)

PnlEntryPrices == {RInt(100), RInt(50)}
PnlQuantities == {RInt(1), RInt(2)}
PnlExitPrices == {Rat(1009, 10), RInt(80), RInt(100)}
PnlFees == {Rat(1, 1000), RInt(0)}

PnlPositions ==
    {[NewPosition(1, entry_price, quantity, HAMMER, Rat(201, 2), Rat(199, 2))
         EXCEPT !.exit_price = stored] :
        entry_price \in PnlEntryPrices, quantity \in PnlQuantities,
        stored \in {None} \cup {Some(x) : x \in PnlExitPrices}}

InitPnl ==
    /\ pc = "pnl_call"
    /\ position \in {Some(p) : p \in PnlPositions}
    /\ pnl_args \in [exit_price : PnlExitPrices, fee_percent : PnlFees]
    /\ df = <<>>
    /\ IdleBacktest /\ IdlePattern /\ IdleEma /\ IdleMerge /\ IdleCalc /\ IdleTwo /\ IdleReport /\ IdleArgs

CalculatePnl ==
    /\ pc = "pnl_call"
    /\ position' = Some(calculate_pnl(Get(position), pnl_args.exit_price,
                                      pnl_args.fee_percent))
    /\ pc' = "pnl_done"
    /\ UNCHANGED <<df, pnl_args, btVars, patVars, emaVars, mergeVars, calcVars, twoVars, reportVars, argVars>>

NextPnl == CalculatePnl

SpecPnl == InitPnl /\ [][NextPnl]_vars

\* C14: after calculate_pnl(exit_price, fee_percent), for the exit price
\* passed in, pnl = (exit_price - entry_price) * quantity,
\* fees = entry_price * quantity * fee_percent + exit_price * quantity *
\* fee_percent, net_pnl = pnl - fees and
\* pnl_percent = (exit_price - entry_price) / entry_price.
C14_PnlOfExitPricePassedIn ==
    pc = "pnl_done" =>
        LET p == Get(position)
            x == pnl_args.exit_price
            fee == pnl_args.fee_percent
        IN  /\ p.pnl = RMul(RSub(x, p.entry_price), p.quantity)
            /\ p.fees = RAdd(RMul(RMul(p.entry_price, p.quantity), fee),
                             RMul(RMul(x, p.quantity), fee))
            /\ p.net_pnl = RSub(p.pnl, p.fees)
            /\ p.pnl_percent = RDiv(RSub(x, p.entry_price), p.entry_price)

-----------------------------------------------------------------------------
(* calculate_ema analysed alone: the prices and the period are drawn in    *)
(* the initial state and one step applies the function.  The inputs        *)
(* include the series of tests/test_ema.py.                                *)

CalcPrices == {RInt(1), RInt(2), RInt(4)}

RECURSIVE PriceSeqs(_)
\* every price sequence of at most n elements
PriceSeqs(n) ==
    IF n = 0 THEN {<<>>}
    ELSE LET shorter == PriceSeqs(n - 1) IN
         shorter \cup {Append(s, p) : s \in {q \in shorter : Len(q) = n - 1},
                                      p \in CalcPrices}

\* prices of test_ema_calculation_basic: [10.0, 11.0, 12.0, 11.5, 13.0]
TestPrices == <<RInt(10), RInt(11), RInt(12), Rat(23, 2), RInt(13)>>

InitCalc ==
    /\ pc = "calc_call"
    /\ calc_args \in [prices : PriceSeqs(MaxCalcLen) \cup {TestPrices},
                      period : 1..MaxCalcPeriod]
    /\ ema_array = None
    /\ df = <<>>
    /\ IdleBacktest /\ IdlePattern /\ IdleEma /\ IdleMerge /\ IdlePnl /\ IdleTwo /\ IdleReport /\ IdleArgs

CalculateEma ==
    /\ pc = "calc_call"
    /\ ema_array' = Some(calculate_ema(calc_args.prices, calc_args.period))
    /\ pc' = "calc_done"
    /\ UNCHANGED <<df, calc_args, btVars, patVars, emaVars, mergeVars, pnlVars, twoVars, reportVars, argVars>>

NextCalc == CalculateEma

SpecCalc == InitCalc /\ [][NextCalc]_vars

\* C18: calculate_ema(prices, period) returns a sequence of the same length
\* with ema[0] = prices[0] and ema[i] = alpha * prices[i] + (1 - alpha) *
\* ema[i-1], alpha = 2 / (period + 1); so period 1 returns the prices
\* unchanged, an empty input returns an empty sequence, and
\* [10, 11, 12, 11.5, 13] with period 3 returns
\* [10, 10.5, 11.25, 11.375, 12.1875].
C18_EmaRecurrence ==
    pc = "calc_done" =>
        LET p == calc_args.prices
            alpha == Rat(2, calc_args.period + 1)
            ema == Get(ema_array)
        IN  /\ Len(ema) = Len(p)
            /\ Len(p) > 0 => ema[1] = p[1]
            /\ \A k \in 2..Len(p) :
                  ema[k] = RAdd(RMul(alpha, p[k]), RMul(RSub(RInt(1), alpha), ema[k - 1]))
            /\ calc_args.period = 1 => ema = p
            /\ p = <<>> => ema = <<>>
            /\ (p = TestPrices /\ calc_args.period = 3) =>
                  ema = <<RInt(10), Rat(21, 2), Rat(45, 4), Rat(91, 8), Rat(195, 16)>>

\* the series of the test was given with period 3
C18_Witness ==
    /\ pc = "calc_done"
    /\ calc_args.prices = TestPrices
    /\ calc_args.period = 3
    /\ Len(Get(ema_array)) = 5

-----------------------------------------------------------------------------
(* Further properties of the pattern detectors *)

\* detect_patterns tests the hammer first, so on a frame of one candle it
\* returns Hammer exactly when detect_hammer accepts the candle
HammerTested(candle) == pc = "detect_done" /\ df = <<candle>> /\ index = 0

\* C13: detect_hammer accepts the test's valid hammer (open 100.0, high 100.5,
\* low 98.0, close 100.2) and rejects the test's two invalid candles (body too
\* large; upper shadow too large).
C13_TestHammerCandles ==
    /\ HammerTested(TestValidHammer) => pattern_out = HAMMER
    /\ HammerTested(TestBodyTooLarge) => pattern_out # HAMMER
    /\ HammerTested(TestUpperShadowTooLarge) => pattern_out # HAMMER

-----------------------------------------------------------------------------
(* Further properties of get_ema_at_timestamp *)

\* the number of reference candles that closed strictly before the target
CompletedCount == Len(ClosedBefore(df_4h, ema_args.target))

\* C19: on a reference series ordered by close_time, a query with k completed
\* candles, k >= max(short_period, long_period), returns for each period
\* exactly element k-1 of the EMA series computed once over the whole series.
C19_RecomputeEqualsRunning ==
    (pc = "ema_series_done"
        /\ CompletedCount > 0
        /\ CompletedCount >= Max(ema_args.short_period, ema_args.long_period))
    => /\ ema_out[1] = Some(Get(ema_series)[1][CompletedCount])
       /\ ema_out[2] = Some(Get(ema_series)[2][CompletedCount])

\* a query before the end of the series, whose two EMAs differ
C19_Witness ==
    /\ pc = "ema_series_done"
    /\ CompletedCount >= Max(ema_args.short_period, ema_args.long_period)
    /\ CompletedCount >= 2
    /\ CompletedCount < Len(df_4h)
    /\ ema_out[1] # ema_out[2]
    /\ ema_out[2] = Some(Get(ema_series)[2][CompletedCount])

\* C11: get_ema_at_timestamp returns (None, None) whenever fewer than
\* max(short_period, long_period) reference candles closed strictly before
\* the target (an empty series included), and two present values otherwise.
C11_InsufficientHistoryIsAbsent ==
    pc = "ema_done" =>
        IF CompletedCount < Max(ema_args.short_period, ema_args.long_period)
        THEN ema_out = <<None, None>>
        ELSE ~IsNone(ema_out[1]) /\ ~IsNone(ema_out[2])

\* some candles closed before the target, but fewer than the long period
C11_Witness ==
    /\ pc = "ema_done"
    /\ CompletedCount > 0
    /\ CompletedCount >= ema_args.short_period
    /\ CompletedCount < ema_args.long_period
    /\ ema_out = <<None, None>>

-----------------------------------------------------------------------------
(* Further properties of Backtester.backtest *)

\* candle i shows a bullish pattern while no position is held and the trend
\* filter has no values
BullishWhileFlatWithoutEma ==
    /\ pc = "bt_walk"
    /\ i < Len(df)
    /\ IsNone(current_position)
    /\ detect_patterns(df, i) \in {HAMMER, BULLISH_ENGULFING, MORNING_STAR}
    /\ LET emas == get_ema_at_timestamp(df_4h, Iloc(df, i).timestamp,
                                        self.ema_short_period, self.ema_long_period)
       IN  IsNone(emas[1]) \/ IsNone(emas[2])

\* C12: when the trend-filter values are absent, a bullish pattern seen while
\* no position is held opens no position and increments ema_filter_blocked.
C12_AbsentEmaCountsAsBlocked ==
    [][BullishWhileFlatWithoutEma =>
        /\ IsNone(current_position')
        /\ Get(result').ema_filter_blocked = Get(result).ema_filter_blocked + 1]_vars

\* C15: backtest on a trading series of fewer than 3 candles returns an empty
\* result without simulating: no positions, total_trades = 0,
\* patterns_detected = 0, ema_filter_blocked = 0 and the HODL fields at 0.
C15_ShortSeriesEmptyResult ==
    (pc = "bt_done" /\ Len(df) < 3) =>
        LET res == Get(result) IN
        /\ res.positions = <<>>
        /\ res.total_trades = 0
        /\ res.winning_trades = 0 /\ res.losing_trades = 0
        /\ res.patterns_detected = 0
        /\ res.ema_filter_blocked = 0
        /\ res.first_price = RInt(0) /\ res.last_price = RInt(0)
        /\ res.hodl_return = RInt(0) /\ res.hodl_pnl = RInt(0)
        /\ IsNone(current_position)

\* a run on two candles, with closes that differ, has returned
C15_Witness ==
    /\ pc = "bt_done"
    /\ Len(df) = 2
    /\ df[1].close # df[2].close
    /\ ~IsNone(result)

\* the divisor of each division that a step of backtest performs is not 0:
\* the first close (line 76), the entry price of the position held (line 98
\* and calculate_pnl), the close of the entry candle (line 156)
DivisorsNonZero ==
    /\ (pc = "bt_call" /\ Len(df) >= 3) => Iloc(df, 0).close # 0
    /\ (pc = "bt_walk" /\ ~IsNone(current_position)) =>
            Get(current_position).entry_price.n # 0
    /\ Opens => Iloc(df, i).close # 0

\* C16: no division by zero is reachable in the simulation core: no step of
\* backtest divides by a first close or an entry price of 0, and every
\* quotient stored in the result is a finite number.
C16_NoDivisionByZero ==
    /\ [][DivisorsNonZero]_vars
    /\ [](~IsNone(result) =>
            /\ IsFinite(Get(result).hodl_return)
            /\ IsFinite(Get(result).hodl_pnl)
            /\ \A k \in 1..Len(Recorded) :
                  IsFinite(Recorded[k].quantity) /\ IsFinite(Recorded[k].pnl_percent))

\* a series whose timestamps are not strictly ascending
Malformed(frame) ==
    \E k \in 1..(Len(frame) - 1) : frame[k + 1].timestamp <= frame[k].timestamp

\* C17: given a trading or reference series with timestamps that are not
\* strictly ascending (unsorted or repeated), backtest fails fast: it does not
\* walk the candles and does not return a BacktestResult.
C17_MalformedSeriesFailsFast ==
    (Malformed(df) \/ Malformed(df_4h)) => pc \notin {"bt_walk", "bt_done"}

-----------------------------------------------------------------------------
(* Properties of two interleaved runs *)

\* the trading series of run r
SeriesOf(r) == IF r = run THEN df ELSE Get(parked).df

\* both runs have started again after having run alone
Together == Len(alone) = 2

\* C20: backtest never modifies the trading series, the reference series or
\* the configuration, and two runs that share the reference series and are
\* interleaved in any order each return exactly the result they return alone.
C20_RunsIndependent ==
    /\ []((Together /\ pc = "bt_done") => Get(result) = alone[run])
    /\ []((Together /\ Get(parked).pc = "bt_done") =>
              Get(Get(parked).result) = alone[3 - run])
    /\ [][/\ df_4h' = df_4h
          /\ self' = self
          /\ SeriesOf(1)' = SeriesOf(1)
          /\ SeriesOf(2)' = SeriesOf(2)]_vars

\* two different runs, each with a recorded position, have both returned
\* after executing together
C20_Witness ==
    /\ Together
    /\ pc = "bt_done"
    /\ Get(parked).pc = "bt_done"
    /\ df # Get(parked).df
    /\ Len(Get(result).positions) >= 1
    /\ Len(Get(Get(parked).result).positions) >= 1
    /\ Get(result) # Get(Get(parked).result)

-----------------------------------------------------------------------------
(* app/report.py: generate_report.  The results given to it carry the      *)
(* fields it reads; generated_at (the clock), the configuration copied     *)
(* from the settings and the per-result conversion of positions are left   *)
(* out of the report.                                                      *)

\* at most MaxResults results are given to generate_report
MaxResults == 3

RECURSIVE Pow10(_)
Pow10(k) == IF k = 0 THEN 1 ELSE 10 * Pow10(k - 1)

\* Python's round(x, ndigits): the nearest multiple of 10^-ndigits, a tie
\* going to the even one; inf and nan are returned unchanged
Round(x, ndigits) ==
    IF x.d = 0 THEN x
    ELSE LET scaled == x.n * Pow10(ndigits)
             q == scaled \div x.d
             r == scaled % x.d
             up == \/ 2 * r > x.d
                   \/ (2 * r = x.d /\ q % 2 = 1)
         IN  Rat(IF up THEN q + 1 ELSE q, Pow10(ndigits))

\* line 107
ValidResults(rs) == SelectSeq(rs, LAMBDA r : ~IsNone(r))

RECURSIVE TimeframeKeys(_)
\* the keys of timeframe_stats in insertion order (lines 112-121): the
\* timeframes of the valid results in order of first appearance
TimeframeKeys(valid) ==
    IF valid = <<>> THEN <<>>
    ELSE LET before == TimeframeKeys(SubSeq(valid, 1, Len(valid) - 1))
             tf == Get(Last(valid)).timeframe
         IN  IF \E k \in 1..Len(before) : before[k] = tf
             THEN before ELSE Append(before, tf)

\* lines 123-129: the statistics accumulated under one key
TimeframeStats(valid, tf) ==
    LET mine == SelectSeq(valid, LAMBDA r : Get(r).timeframe = tf)
        traded == SelectSeq(mine, LAMBDA r : Get(r).total_trades > 0)
    IN  [total_trades |-> RSum([k \in 1..Len(mine) |-> RInt(Get(mine[k]).total_trades)]).n,
         total_pnl |-> RSum([k \in 1..Len(mine) |-> Get(mine[k]).total_pnl]),
         net_pnl |-> RSum([k \in 1..Len(mine) |-> Get(mine[k]).net_pnl]),
         win_rates |-> [k \in 1..Len(traded) |-> Get(traded[k]).win_rate],
         symbols_traded |-> {Get(traded[k]).symbol : k \in 1..Len(traded)}]

\* lines 134-149
TimeframeSummary(tf, stats) ==
    LET avg_win_rate == IF Len(stats.win_rates) > 0
                        THEN RDiv(RSum(stats.win_rates), RInt(Len(stats.win_rates)))
                        ELSE RInt(0)
    IN  [timeframe |-> tf,
         total_trades |-> stats.total_trades,
         total_pnl |-> Round(stats.total_pnl, 2),
         net_pnl |-> Round(stats.net_pnl, 2),
         avg_win_rate |-> Round(avg_win_rate, 4),
         symbols_traded |-> Cardinality(stats.symbols_traded)]

RECURSIVE InsertByNetPnl(_, _)
\* x placed behind every summary whose net_pnl is not below its own
InsertByNetPnl(x, sorted) ==
    IF sorted = <<>> THEN <<x>>
    ELSE IF RGe(sorted[1].net_pnl, x.net_pnl)
    THEN <<sorted[1]>> \o InsertByNetPnl(x, Tail(sorted))
    ELSE <<x>> \o sorted

RECURSIVE SortByNetPnl(_)
\* line 152: list.sort(key = net_pnl, reverse = True); the sort is stable, so
\* summaries with equal net_pnl keep their order
SortByNetPnl(summaries) ==
    IF summaries = <<>> THEN <<>>
    ELSE InsertByNetPnl(Last(summaries),
                        SortByNetPnl(SubSeq(summaries, 1, Len(summaries) - 1)))

\* lines 158-180
OverallStats(valid) ==
    LET Total(f) == RSum([k \in 1..Len(valid) |-> RInt(Get(valid[k])[f])]).n
        Sum(f) == RSum([k \in 1..Len(valid) |-> Get(valid[k])[f]])
        total_trades == Total("total_trades")
        overall_win_rate == IF total_trades > 0
                            THEN Rat(Total("winning_trades"), total_trades)
                            ELSE RInt(0)
    IN  [total_trades |-> total_trades,
         winning_trades |-> Total("winning_trades"),
         losing_trades |-> Total("losing_trades"),
         win_rate |-> Round(overall_win_rate, 4),
         total_pnl |-> Round(Sum("total_pnl"), 2),
         total_fees |-> Round(Sum("total_fees"), 2),
         net_pnl |-> Round(Sum("net_pnl"), 2),
         ema_filter_blocked |-> Total("ema_filter_blocked"),
         patterns_detected |-> Total("patterns_detected")]

\* lines 106-205
generate_report(rs) ==
    LET valid_results == ValidResults(rs)
        keys == TimeframeKeys(valid_results)
        timeframe_summaries ==
            SortByNetPnl([k \in 1..Len(keys) |->
                TimeframeSummary(keys[k], TimeframeStats(valid_results, keys[k]))])
    IN  [overall_stats |-> OverallStats(valid_results),
         best_timeframe |-> IF Len(timeframe_summaries) > 0
                            THEN timeframe_summaries[1].timeframe ELSE "",
         timeframe_summaries |-> timeframe_summaries]

-----------------------------------------------------------------------------
(* generate_report analysed alone: the list of results is drawn in the     *)
(* initial state and one step builds the report.                           *)

\* a BacktestResult of `trades` trades, `wins` of them won, with no fees
ResultOf(symbol, timeframe, trades, wins, net) ==
    [symbol |-> symbol,
     timeframe |-> timeframe,
     total_trades |-> trades,
     winning_trades |-> wins,
     losing_trades |-> trades - wins,
     win_rate |-> IF trades > 0 THEN Rat(wins, trades) ELSE RInt(0),
     total_pnl |-> net,
     total_fees |-> RInt(0),
     net_pnl |-> net,
     ema_filter_blocked |-> 0,
     patterns_detected |-> trades]

\* what run_backtest returned for one symbol/timeframe: None (no data), a
\* result without trades, or a result with trades; net P&L of whole units and
\* of fractions of a cent
ReportResults ==
    {None,
     Some(ResultOf("BTCUSDC", "1m", 0, 0, RInt(0))),
     Some(ResultOf("BTCUSDC", "1m", 1, 1, Rat(1, 10000))),
     Some(ResultOf("ETHUSDC", "1m", 2, 1, RInt(-1))),
     Some(ResultOf("BTCUSDC", "5m", 1, 1, Rat(4, 10000))),
     Some(ResultOf("ETHUSDC", "5m", 1, 1, RInt(2)))}

RECURSIVE ResultLists(_)
\* every list of at most n results
ResultLists(n) ==
    IF n = 0 THEN {<<>>}
    ELSE LET shorter == ResultLists(n - 1) IN
         shorter \cup {Append(l, r) : l \in {g \in shorter : Len(g) = n - 1},
                                      r \in ReportResults}

InitReport ==
    /\ pc = "report_call"
    /\ results \in ResultLists(MaxResults)
    /\ report = None
    /\ df = <<>>
    /\ IdleBacktest /\ IdlePattern /\ IdleEma /\ IdleMerge
    /\ IdlePnl /\ IdleCalc /\ IdleTwo /\ IdleArgs

GenerateReport ==
    /\ pc = "report_call"
    /\ report' = Some(generate_report(results))
    /\ pc' = "report_done"
    /\ UNCHANGED <<df, results, btVars, patVars, emaVars, mergeVars,
                   pnlVars, calcVars, twoVars, argVars>>

NextReport == GenerateReport

SpecReport == InitReport /\ [][NextReport]_vars

\* the timeframes of the results given that are not None
TimeframesGiven ==
    {Get(results[k]).timeframe : k \in {j \in 1..Len(results) : ~IsNone(results[j])}}

\* the net_pnl of the results of one timeframe, summed
SummedNetPnl(tf) == TimeframeStats(ValidResults(results), tf).net_pnl

\* C21: generate_report produces one summary per distinct timeframe, ordered
\* by net_pnl descending, and best_timeframe is the timeframe of the first
\* summary, which is the timeframe with the highest summed net_pnl, or the
\* empty string when there are no results.
C21_BestTimeframeIsHighest ==
    pc = "report_done" =>
        LET summaries == Get(report).timeframe_summaries
            best == Get(report).best_timeframe
        IN  /\ Len(summaries) = Cardinality(TimeframesGiven)
            /\ {summaries[k].timeframe : k \in 1..Len(summaries)} = TimeframesGiven
            /\ \A k \in 1..(Len(summaries) - 1) :
                  RGe(summaries[k].net_pnl, summaries[k + 1].net_pnl)
            /\ TimeframesGiven = {} => best = ""
            /\ TimeframesGiven # {} =>
                  /\ best = summaries[1].timeframe
                  /\ \A tf \in TimeframesGiven :
                        RGe(SummedNetPnl(best), SummedNetPnl(tf))

-----------------------------------------------------------------------------
(* Properties of the exits and the counters of Backtester.backtest *)

\* the positions in result.positions after the step
RecordedNext == IF IsNone(result') THEN <<>> ELSE Get(result').positions

\* the step appends a position to result.positions
Records == pc = "bt_walk" /\ Len(RecordedNext) = Len(Recorded) + 1

\* the candle at which a step of the walk (or the forced close) acts
ActingCandle == IF i < Len(df) THEN Iloc(df, i) ELSE Iloc(df, Len(df) - 1)

\* C22: a position closed with Take Profit has exit_price = entry_price *
\* (1 + take_profit) and one closed with Stop Loss has exit_price =
\* entry_price * (1 + stop_loss), whatever the close of the triggering candle;
\* a position closed with EMA Bearish or Forced Close has exit_price equal to
\* the close of the candle at which it is closed; exit_time is that candle's
\* timestamp in every case.
C22_IdealizedExitFills ==
    [][Records =>
        LET closed == Last(RecordedNext)
            reason == Get(closed.exit_reason)
        IN  /\ closed.exit_time = Some(ActingCandle.timestamp)
            /\ reason = TAKE_PROFIT =>
                  closed.exit_price =
                      Some(RMul(closed.entry_price, RAdd(RInt(1), self.take_profit)))
            /\ reason = STOP_LOSS =>
                  closed.exit_price =
                      Some(RMul(closed.entry_price, RAdd(RInt(1), self.stop_loss)))
            /\ reason \in {EMA_BEARISH, FORCED_CLOSE} =>
                  closed.exit_price = Some(RInt(ActingCandle.close))
            /\ reason = FORCED_CLOSE <=> i >= Len(df)]_vars

\* a recorded Stop Loss filled away from the close of its exit candle, in a run
\* that also recorded an exit at a candle's close
C22_Witness ==
    /\ pc = "bt_done"
    /\ \E k \in 1..Len(Recorded) :
          /\ Recorded[k].exit_reason = Some(STOP_LOSS)
          /\ \E j \in 1..Len(df) :
                /\ Recorded[k].exit_time = Some(df[j].timestamp)
                /\ Recorded[k].exit_price # Some(RInt(df[j].close))
    /\ \E k \in 1..Len(Recorded) :
          Recorded[k].exit_reason \in {Some(EMA_BEARISH), Some(FORCED_CLOSE)}

\* a position is held when the walk reaches candle i
HeldAtCandle ==
    /\ pc = "bt_walk"
    /\ i < Len(df)
    /\ ~IsNone(current_position)

\* the trend filter at candle i gives both EMAs, the short one below the long one
TrendBearish ==
    LET emas == get_ema_at_timestamp(df_4h, Iloc(df, i).timestamp,
                                     self.ema_short_period, self.ema_long_period)
    IN  /\ ~IsNone(emas[1]) /\ ~IsNone(emas[2])
        /\ RLt(Get(emas[1]), Get(emas[2]))

\* C23: a position held at candle i is closed with reason EMA Bearish exactly
\* when its return r at the candle's close satisfies stop_loss < r < 0 and
\* r < take_profit and the trend filter at the candle's timestamp gives both
\* values with short < long; when neither threshold is met and the filter
\* values are absent, or short >= long, or r >= 0, the position stays open at
\* that step.
C23_EmaBearishExit ==
    [][HeldAtCandle =>
        LET r == CurrentReturn(Get(current_position), Iloc(df, i))
            between == RLt(self.stop_loss, r) /\ RLt(r, self.take_profit)
            bearish == between /\ RLt(r, RInt(0)) /\ TrendBearish
            closed_by_ema ==
                /\ Len(RecordedNext) = Len(Recorded) + 1
                /\ Last(RecordedNext).entry_time = Get(current_position).entry_time
                /\ Last(RecordedNext).exit_reason = Some(EMA_BEARISH)
        IN  /\ closed_by_ema <=> bearish
            /\ (between /\ ~bearish) =>
                  /\ RecordedNext = Recorded
                  /\ current_position' = current_position]_vars

\* the candle just walked closed, with reason EMA Bearish and at its close, the
\* position opened at the candle before it
C23_Witness ==
    /\ pc = "bt_walk"
    /\ i >= 4
    /\ Len(Recorded) >= 1
    /\ Last(Recorded).exit_reason = Some(EMA_BEARISH)
    /\ Last(Recorded).exit_time = Some(Iloc(df, i - 1).timestamp)
    /\ Last(Recorded).exit_price = Some(RInt(Iloc(df, i - 1).close))
    /\ Last(Recorded).entry_time = Iloc(df, i - 2).timestamp
    /\ RLt(Last(Recorded).pnl_percent, RInt(0))

\* result.ema_filter_blocked, 0 before the result object exists
BlockedCount == IF IsNone(result) THEN 0 ELSE Get(result).ema_filter_blocked

BlockedCountNext == IF IsNone(result') THEN 0 ELSE Get(result').ema_filter_blocked

\* at candle i the entry check finds no position held, a bullish pattern and
\* both EMAs with short <= long
BlockedAtCandle ==
    LET emas == get_ema_at_timestamp(df_4h, Iloc(df, i).timestamp,
                                     self.ema_short_period, self.ema_long_period)
    IN  /\ IsNone(current_position) \/ Records
        /\ detect_patterns(df, i) \in {HAMMER, BULLISH_ENGULFING, MORNING_STAR}
        /\ ~IsNone(emas[1]) /\ ~IsNone(emas[2])
        /\ RLe(Get(emas[1]), Get(emas[2]))

\* either EMA is absent at candle i
EmaAbsentAtCandle ==
    LET emas == get_ema_at_timestamp(df_4h, Iloc(df, i).timestamp,
                                     self.ema_short_period, self.ema_long_period)
    IN  IsNone(emas[1]) \/ IsNone(emas[2])

TrendBullish ==
    LET emas == get_ema_at_timestamp(df_4h, Iloc(df, i).timestamp,
                                     self.ema_short_period, self.ema_long_period)
    IN  /\ ~IsNone(emas[1]) /\ ~IsNone(emas[2])
        /\ RGt(Get(emas[1]), Get(emas[2]))

\* C25: the walk visits the candles of index 2..n-1 once each in ascending
\* order, and within one step the exit check precedes the entry check: after a
\* position is closed by an exit rule at candle i no position is held at the
\* entry check of candle i (a bullish pattern with a bullish trend opens a new
\* position at candle i), while a position opened at candle i is left open by
\* that step and is first evaluated for exit at candle i+1.
C25_ExitBeforeEntry ==
    /\ [](pc = "bt_walk" => (2 <= i /\ i <= Len(df)))
    /\ [][/\ (pc = "bt_call" /\ pc' = "bt_walk") => i' = 2
          /\ (pc = "bt_walk" /\ pc' = "bt_walk") => (i < Len(df) /\ i' = i + 1)
          /\ (pc = "bt_walk" /\ pc' = "bt_done") => (i = Len(df) /\ i' = i)
          /\ (Records /\ i < Len(df)) =>
                /\ Last(RecordedNext).entry_time = Get(current_position).entry_time
                /\ (detect_patterns(df, i) \in {HAMMER, BULLISH_ENGULFING, MORNING_STAR}
                    /\ TrendBullish)
                   <=> Opens
                /\ ~Opens => IsNone(current_position')
          /\ Opens =>
                /\ Get(current_position').entry_time = Iloc(df, i).timestamp
                /\ Get(current_position').exit_reason = None
                /\ pc' = "bt_walk" /\ i' = i + 1]_vars

\* the candle just walked closed one position by an exit rule and opened the
\* next one
C25_Witness ==
    /\ pc = "bt_walk"
    /\ i >= 4
    /\ Len(Recorded) >= 1
    /\ ~IsNone(current_position)
    /\ Last(Recorded).exit_time = Some(Get(current_position).entry_time)
    /\ Get(current_position).entry_time = Iloc(df, i - 1).timestamp
    /\ Last(Recorded).entry_time = Iloc(df, i - 2).timestamp

\* the positions of a result whose net_pnl is above 0
Winners(res) == {k \in 1..Len(res.positions) : RGt(res.positions[k].net_pnl, RInt(0))}

\* the sum of field f over the positions of a result, those outside `among`
\* counting as 0
SumOfField(res, f, among) ==
    RSum([k \in 1..Len(res.positions) |->
            IF k \in among THEN res.positions[k][f] ELSE RInt(0)])

\* C26: in every returned BacktestResult the aggregates agree with the list of
\* positions: a trade is a win iff its net_pnl > 0, winning_trades +
\* losing_trades = total_trades, win_rate = winning_trades / total_trades (0
\* without trades), total_pnl, total_fees and net_pnl are the sums over the
\* positions, avg_win is the mean net_pnl of the winning positions and
\* avg_loss the mean net_pnl of the others (each 0 when there are none).
C26_AggregatesConsistent ==
    pc = "bt_done" =>
        LET res == Get(result)
            all == 1..Len(res.positions)
            wins == Winners(res)
            losses == all \ wins
        IN  /\ res.total_trades = Len(res.positions)
            /\ res.winning_trades = Cardinality(wins)
            /\ res.losing_trades = Cardinality(losses)
            /\ res.winning_trades + res.losing_trades = res.total_trades
            /\ IF res.total_trades = 0
               THEN res.win_rate = RInt(0)
               ELSE RMul(res.win_rate, RInt(res.total_trades)) = RInt(res.winning_trades)
            /\ res.total_pnl = SumOfField(res, "pnl", all)
            /\ res.total_fees = SumOfField(res, "fees", all)
            /\ res.net_pnl = SumOfField(res, "net_pnl", all)
            /\ IF wins = {}
               THEN res.avg_win = RInt(0)
               ELSE RMul(res.avg_win, RInt(Cardinality(wins)))
                        = SumOfField(res, "net_pnl", wins)
            /\ IF losses = {}
               THEN res.avg_loss = RInt(0)
               ELSE RMul(res.avg_loss, RInt(Cardinality(losses)))
                        = SumOfField(res, "net_pnl", losses)

\* a returned result with a winning and a losing position
C26_Witness ==
    /\ pc = "bt_done"
    /\ Get(result).total_trades >= 2
    /\ Winners(Get(result)) # {}
    /\ Winners(Get(result)) # 1..Len(Get(result).positions)
    /\ Get(result).avg_win # Get(result).net_pnl

\* C27: on a trading series with strictly ascending timestamps the recorded
\* positions are in chronological order and do not overlap: every position has
\* entry_time <= exit_time, the exit_time of position k is <= the entry_time
\* of position k+1, and exit_time equals entry_time only for a Forced Close
\* position that was entered at the final candle.
C27_PositionsChronological ==
    (~IsNone(result) /\ ~Malformed(df)) =>
        /\ \A k \in 1..Len(Recorded) :
              /\ Recorded[k].entry_time <= Get(Recorded[k].exit_time)
              /\ Recorded[k].entry_time = Get(Recorded[k].exit_time) =>
                    /\ Recorded[k].exit_reason = Some(FORCED_CLOSE)
                    /\ Recorded[k].entry_time = Last(df).timestamp
        /\ \A k \in 1..(Len(Recorded) - 1) :
              Get(Recorded[k].exit_time) <= Recorded[k + 1].entry_time

\* a returned result of two positions: the second entered at the candle that
\* closed the first, which is the final candle, and closed there by force
C27_Witness ==
    /\ pc = "bt_done"
    /\ ~Malformed(df)
    /\ Len(Recorded) = 2
    /\ Recorded[1].entry_time < Get(Recorded[1].exit_time)
    /\ Recorded[1].exit_time = Some(Recorded[2].entry_time)
    /\ Recorded[2].exit_time = Some(Recorded[2].entry_time)
    /\ Recorded[2].exit_reason = Some(FORCED_CLOSE)

\* result.patterns_detected, 0 before the result object exists
PatternsDetected == IF IsNone(result) THEN 0 ELSE Get(result).patterns_detected

PatternsDetectedNext == IF IsNone(result') THEN 0 ELSE Get(result').patterns_detected

\* C29: patterns_detected is incremented at every step of the walk (index >= 2)
\* at which detect_patterns returns a pattern, whether or not a position is
\* held, and changes nowhere else; when the run has ended, total_trades +
\* ema_filter_blocked <= patterns_detected.
C29_PatternsDetectedCounter ==
    /\ [][PatternsDetectedNext =
            PatternsDetected
            + (IF pc = "bt_walk" /\ i < Len(df) /\ detect_patterns(df, i) # NoPattern
               THEN 1 ELSE 0)]_vars
    /\ [](pc = "bt_done" =>
            Get(result).total_trades + Get(result).ema_filter_blocked
                <= Get(result).patterns_detected)

\* a returned result with a trade and a blocked entry, where a pattern was
\* counted at a candle after the entry while the position was held
C29_Witness ==
    /\ pc = "bt_done"
    /\ ~Malformed(df)
    /\ Get(result).total_trades >= 1
    /\ Get(result).ema_filter_blocked >= 1
    /\ \E k \in 1..Len(Recorded), j \in 3..Len(df) :
          /\ detect_patterns(df, j - 1) # NoPattern
          /\ Recorded[k].entry_time < df[j].timestamp
          /\ df[j].timestamp <= Get(Recorded[k].exit_time)

-----------------------------------------------------------------------------
(* Backtester(...) followed by one run of backtest: the constructor        *)
(* arguments are drawn in the initial state (None stands for an argument   *)
(* that was not supplied), one step runs __init__ and the run follows on   *)
(* a four-candle series.                                                   *)

ExplicitTradeAmounts == {None, Some(RInt(0)), Some(RInt(50))}
ExplicitFeePercents == {None, Some(RInt(0)), Some(Rat(1, 100))}
ExplicitTakeProfits == {None, Some(RInt(0)), Some(Rat(1, 100))}
ExplicitStopLosses == {None, Some(RInt(0)), Some(Rat(-3, 100))}

InitArgs ==
    /\ pc = "init_call"
    /\ init_args \in {Some(a) : a \in [trade_amount : ExplicitTradeAmounts,
                                       fee_percent : ExplicitFeePercents,
                                       take_profit : ExplicitTakeProfits,
                                       stop_loss : ExplicitStopLosses]}
    /\ self = None
    /\ df \in TwoRunFrames
    /\ df_4h \in TwoRunRefs
    /\ i = 0
    /\ current_position = None
    /\ result = None
    /\ IdlePattern /\ IdleEma /\ IdleMerge
    /\ IdlePnl /\ IdleCalc /\ IdleTwo /\ IdleReport

\* strategy.py lines 36-41
Construct ==
    /\ pc = "init_call"
    /\ \E lp \in SettingsEmaLongPeriods :
          self' = Backtester_init(Get(init_args).trade_amount,
                                  Get(init_args).fee_percent,
                                  Get(init_args).take_profit,
                                  Get(init_args).stop_loss, lp)
    /\ pc' = "bt_call"
    /\ UNCHANGED <<df, df_4h, i, current_position, result, patVars, emaVars,
                   mergeVars, unitVars>>

NextArgs == Construct \/ Begin \/ Step \/ Finish

SpecArgs == InitArgs /\ [][NextArgs]_vars

\* the attribute holds the argument when one was supplied, else the setting
UsesArgument(attribute, argument, setting) ==
    attribute = (IF IsNone(argument) THEN setting ELSE Get(argument))

\* C30: a Backtester constructed with explicit values for trade_amount,
\* fee_percent, take_profit or stop_loss uses exactly those values in the
\* simulation, 0 included (fee_percent = 0 gives fees = 0 on every position);
\* the settings' defaults are used only for the arguments not supplied.
C30_ExplicitArgumentsUsed ==
    pc # "init_call" =>
        LET args == Get(init_args) IN
        /\ UsesArgument(self.trade_amount, args.trade_amount, settings_trade_amount)
        /\ UsesArgument(self.fee_percent, args.fee_percent, settings_trade_fee_percent)
        /\ UsesArgument(self.take_profit, args.take_profit, settings_take_profit_percent)
        /\ UsesArgument(self.stop_loss, args.stop_loss, settings_stop_loss_percent)
        /\ args.fee_percent = Some(RInt(0)) =>
              \A k \in 1..Len(Recorded) : Recorded[k].fees = RInt(0)

\* the positions of the run closed with reason Stop Loss or EMA Bearish
ClosedAtALoss ==
    {k \in 1..Len(Recorded) :
        Recorded[k].exit_reason \in {Some(STOP_LOSS), Some(EMA_BEARISH)}}

\* C28: with stop_loss < 0 and fee_percent >= 0, every position closed with
\* reason Stop Loss or EMA Bearish has net_pnl < 0 and is counted in
\* losing_trades; so every winning trade has reason Take Profit or Forced
\* Close.
C28_LossExitsLose ==
    /\ [](pc \notin {"init_call", "bt_call"}
          /\ RLt(self.stop_loss, RInt(0)) /\ RGe(self.fee_percent, RInt(0)) =>
            /\ \A k \in ClosedAtALoss : RLt(Recorded[k].net_pnl, RInt(0))
            /\ \A k \in 1..Len(Recorded) :
                  RGt(Recorded[k].net_pnl, RInt(0)) =>
                      Recorded[k].exit_reason \in {Some(TAKE_PROFIT), Some(FORCED_CLOSE)}
            /\ Get(result).losing_trades >= Cardinality(ClosedAtALoss)
            /\ Get(result).winning_trades
                  <= Cardinality((1..Len(Recorded)) \ ClosedAtALoss))
    /\ [][(Records /\ RLt(self.stop_loss, RInt(0)) /\ RGe(self.fee_percent, RInt(0))
           /\ Last(RecordedNext).exit_reason \in {Some(STOP_LOSS), Some(EMA_BEARISH)}) =>
            /\ Get(result').losing_trades = Get(result).losing_trades + 1
            /\ Get(result').winning_trades = Get(result).winning_trades]_vars

\* a returned result, under an explicit stop loss of -3% and an explicit fee,
\* with a position closed by Stop Loss and counted as a losing trade
C28_Witness ==
    /\ pc = "bt_done"
    /\ Get(init_args).stop_loss = Some(Rat(-3, 100))
    /\ Get(init_args).fee_percent = Some(Rat(1, 100))
    /\ \E k \in ClosedAtALoss : Recorded[k].exit_reason = Some(STOP_LOSS)
    /\ Get(result).losing_trades >= 1
    /\ Get(result).winning_trades = 0

====
